---- MODULE Spec2Model ----
(***************************************************************************)
(* Model of MEDimage: the DICOM series / RTSTRUCT associator of            *)
(* wrangling/DataManager.py, the ROI index store of MEDimage.py and the    *)
(* slice-grid validation and volume assembly of                            *)
(* wrangling/combine_slices.py, and the spatial reference of a NIfTI scan. *)
(*                                                                         *)
(* Python lists are sequences; a Python index i is the position i+1 here.  *)
(***************************************************************************)
EXTENDS Integers, Sequences, FiniteSets, TLC

VARIABLES
    dicom,          \* DataManager.__dicom (the DICOM dataclass)
    scanned,        \* the files handed to the scan loop so far, in scan order
    assoc_status,   \* "scan" | "done" | "IndexError": outcome of __associate_rt_stuct
    roi,            \* scan.ROI: indexes, roi_names, nameSet, nameSetInfo
    alias,          \* TRUE while roi_names, nameSet, nameSetInfo are one dict object
    volume_shape,   \* np.shape(scan.volume.data)
    ret,            \* what the last ROI operation returned or raised
    n_ops,          \* number of ROI operations performed
    slice_datasets, \* the list given to combine_slices
    validation,     \* "pending" | "ok" | "MissingSlices" | "IndexError"
    warned,         \* TRUE when validation emitted the non-uniform spacing warning
    combined,       \* what combine_slices returned or raised
    cosines,        \* np.dot and np.linalg.norm of the direction cosines under validation
    orientation_check, \* outcome and warnings of _validate_image_orientation
    nifti,          \* the loaded NIfTI image: affine and np.shape of the volume data
    spatialRef,     \* scan.volume.spatialRef with the builder that made it
    manager,        \* DataManager while process_all_dicoms / process_all_niftis run
    assembly,       \* one call of combine_slices taken statement by statement
    lps             \* scan.volume.data and a mask array under convert_to_LPS

vars == <<dicom, scanned, assoc_status, roi, alias, volume_shape,
          ret, n_ops, slice_datasets, validation, warned,
          combined, cosines, orientation_check, nifti, spatialRef,
          manager, assembly, lps>>

dicomVars == <<dicom, scanned, assoc_status>>
roiVars == <<roi, alias, volume_shape, ret, n_ops>>
sliceVars == <<slice_datasets, validation, warned>>
combineVars == <<combined, cosines, orientation_check>>
spatialVars == <<nifti, spatialRef>>
pipelineVars == <<manager, assembly, lps>>

(***************************************************************************)
(* Bounds                                                                  *)
(***************************************************************************)
MaxFiles == 3

(***************************************************************************)
(* Generic helpers                                                         *)
(***************************************************************************)
Range(s) == {s[i] : i \in 1..Len(s)}

RECURSIVE Count(_, _)
Count(s, x) ==
    IF s = <<>> THEN 0
    ELSE (IF Head(s) = x THEN 1 ELSE 0) + Count(Tail(s), x)

(***************************************************************************)
(* DataManager: pass 1 (__read_all_dicoms) and pass 2 (__associate_rt_stuct)*)
(***************************************************************************)
Absent == "<absent>"
NotFound == "NotFound"
ImageModalities == {"MR", "PT", "CT"}
SeriesUIDs == {"s1", "s2"}
FrameUIDs == {"f1", "f2"}

\* A file of the scanned folder, reduced to what the scan loop reads from it.
\* dicom = FALSE: is_dicom() is false or dcmread raises.  An attribute that
\* is Absent raises AttributeError when read.
UnreadableFile ==
    [dicom |-> FALSE, Modality |-> Absent, SeriesInstanceUID |-> Absent,
     FrameOfReferenceUID |-> Absent, RefSeriesUID |-> Absent, RefFrameUID |-> Absent]

ImageFiles ==
    [dicom : {TRUE}, Modality : {"CT", "MR"},
     SeriesInstanceUID : SeriesUIDs \cup {Absent},
     FrameOfReferenceUID : FrameUIDs \cup {Absent},
     RefSeriesUID : {Absent}, RefFrameUID : {Absent}]

RtStructFiles ==
    [dicom : {TRUE}, Modality : {"RTSTRUCT"},
     SeriesInstanceUID : {Absent},
     FrameOfReferenceUID : {"f1", Absent},
     RefSeriesUID : SeriesUIDs \cup {Absent},
     RefFrameUID : FrameUIDs \cup {Absent}]

OtherFiles ==
    [dicom : {TRUE}, Modality : {"OT", Absent},
     SeriesInstanceUID : {"s1"}, FrameOfReferenceUID : {"f1"},
     RefSeriesUID : {Absent}, RefFrameUID : {Absent}]

Files ==
    {UnreadableFile} \cup OtherFiles
    \cup {f \in ImageFiles : f.Modality = "CT" \/ (f.SeriesInstanceUID = "s1" /\ f.FrameOfReferenceUID = "f1")}
    \cup {f \in RtStructFiles : f.RefFrameUID = Absent \/ f.FrameOfReferenceUID = Absent}

\* [len(cell)] if uid not in cell else [i for i, e in enumerate(cell) if e == uid]
RECURSIVE Matches(_, _, _)
Matches(uid, cell, i) ==
    IF i > Len(cell) THEN <<>>
    ELSE (IF cell[i] = uid THEN <<i>> ELSE <<>>) \o Matches(uid, cell, i + 1)

find_uid_cell_index(uid, cell) ==
    IF uid \notin Range(cell) THEN <<Len(cell) + 1>> ELSE Matches(uid, cell, 1)

\* cell[ind] += [path] for each ind of inds in turn; an index past the end of
\* cell raises IndexError and keeps the appends already made.
RECURSIVE append_paths(_, _, _)
append_paths(cell, inds, path) ==
    IF inds = <<>> THEN [ok |-> TRUE, cell |-> cell]
    ELSE IF Head(inds) > Len(cell) THEN [ok |-> FALSE, cell |-> cell]
    ELSE append_paths([cell EXCEPT ![Head(inds)] = Append(@, path)], Tail(inds), path)

\* body of the scan loop for one file of modality MR, PT or CT
read_image(d, info, file) ==
    IF info.SeriesInstanceUID = Absent THEN d
    ELSE
        LET ind == find_uid_cell_index(info.SeriesInstanceUID, d.cell_series_id)[1]
            d1 == IF ind # Len(d.cell_series_id) + 1 THEN d
                  ELSE LET a == [d EXCEPT !.cell_series_id = Append(@, info.SeriesInstanceUID)]
                       IN  IF info.FrameOfReferenceUID = Absent THEN a
                           ELSE [a EXCEPT !.cell_frame_id = Append(@, info.FrameOfReferenceUID),
                                          !.cell_path_images = Append(@, <<>>),
                                          !.cell_path_rs = Append(@, <<>>)]
            raised == ind = Len(d.cell_series_id) + 1 /\ info.FrameOfReferenceUID = Absent
        IN  IF raised THEN d1
            ELSE [d1 EXCEPT !.cell_path_images = append_paths(@, <<ind>>, file).cell]

\* body of the scan loop for one file of modality RTSTRUCT
read_rtstruct(d, info, file) ==
    LET series_uid == IF info.RefSeriesUID = Absent THEN NotFound ELSE info.RefSeriesUID
        d1 == [d EXCEPT !.stack_path_rs = Append(@, file),
                        !.stack_series_rs = Append(@, series_uid)]
    IN  IF info.RefFrameUID # Absent
            THEN [d1 EXCEPT !.stack_frame_rs = Append(@, info.RefFrameUID)]
        ELSE IF info.FrameOfReferenceUID # Absent
            THEN [d1 EXCEPT !.stack_frame_rs = Append(@, info.FrameOfReferenceUID)]
        ELSE d1

\* one iteration of `for file in tqdm(stack_folder)`
read_file(d, info, file) ==
    IF ~info.dicom \/ info.Modality = Absent THEN d
    ELSE IF info.Modality \in ImageModalities THEN read_image(d, info, file)
    ELSE IF info.Modality = "RTSTRUCT" THEN read_rtstruct(d, info, file)
    ELSE d

\* one iteration of the loop of __associate_rt_stuct, for mask file i
associate_one(d, i) ==
    LET by_series == append_paths(d.cell_path_rs,
                        find_uid_cell_index(d.stack_series_rs[i], d.cell_series_id),
                        d.stack_path_rs[i])
        after_try == IF i <= Len(d.stack_series_rs) THEN by_series.cell ELSE d.cell_path_rs
    IN  IF i <= Len(d.stack_series_rs) /\ by_series.ok
            THEN [ok |-> TRUE, cell |-> by_series.cell]
        ELSE IF i > Len(d.stack_frame_rs)
            THEN [ok |-> FALSE, cell |-> after_try]
        ELSE append_paths(after_try,
                          find_uid_cell_index(d.stack_frame_rs[i], d.cell_frame_id),
                          d.stack_path_rs[i])

\* for i in trange(0, n_rs): the first exception that leaves the handler ends the loop
RECURSIVE associate_rt_stuct(_, _)
associate_rt_stuct(d, i) ==
    IF i > Len(d.stack_path_rs) THEN [ok |-> TRUE, d |-> d]
    ELSE LET r == associate_one(d, i)
             d1 == [d EXCEPT !.cell_path_rs = r.cell]
         IN  IF r.ok THEN associate_rt_stuct(d1, i + 1) ELSE [ok |-> FALSE, d |-> d1]

EmptyDicom ==
    [stack_series_rs |-> <<>>, stack_path_rs |-> <<>>, stack_frame_rs |-> <<>>,
     cell_series_id |-> <<>>, cell_path_rs |-> <<>>, cell_path_images |-> <<>>,
     cell_frame_rs |-> <<>>, cell_frame_id |-> <<>>]

IdleDicom == dicom = EmptyDicom /\ scanned = <<>> /\ assoc_status = "scan"
IdleROI ==
    /\ roi = [indexes |-> <<>>, roi_names |-> <<>>, nameSet |-> <<>>, nameSetInfo |-> <<>>]
    /\ alias = FALSE /\ volume_shape = <<1, 1, 1>>
    /\ ret = [op |-> "none"] /\ n_ops = 0
IdleSlices == slice_datasets = <<>> /\ validation = "pending" /\ warned = FALSE
IdleCombine ==
    /\ combined = [status |-> "pending"]
    /\ cosines = [dot |-> 0, row_norm |-> 0, column_norm |-> 0]
    /\ orientation_check = [status |-> "pending", warnings |-> {}]
IdleSpatial == nifti = [loaded |-> FALSE] /\ spatialRef = [builder |-> "None"]
IdlePipeline ==
    /\ manager = [pc |-> "idle"]
    /\ assembly = [pc |-> "idle"]
    /\ lps = [loaded |-> FALSE]

Init == IdleDicom /\ IdleROI /\ IdleSlices /\ IdleCombine /\ IdleSpatial /\ IdlePipeline

\* the scan loop takes the next file of the folder; its path is its scan position
ReadDicomFile ==
    /\ assoc_status = "scan"
    /\ Len(scanned) < MaxFiles
    /\ \E info \in Files :
        /\ dicom' = read_file(dicom, info, Len(scanned) + 1)
        /\ scanned' = Append(scanned, info)
    /\ UNCHANGED <<assoc_status, roiVars, sliceVars, combineVars, spatialVars, pipelineVars>>

\* the folder is exhausted: __read_all_dicoms calls __associate_rt_stuct
AssociateRtStruct ==
    /\ assoc_status = "scan"
    /\ LET r == associate_rt_stuct(dicom, 1)
       IN  /\ dicom' = r.d
           /\ assoc_status' = IF r.ok THEN "done" ELSE "IndexError"
    /\ UNCHANGED <<scanned, roiVars, sliceVars, combineVars, spatialVars, pipelineVars>>

Next == ReadDicomFile \/ AssociateRtStruct

Spec == Init /\ [][Next]_vars

(***************************************************************************)
(* Claims about the associator, stated over the scanned files              *)
(***************************************************************************)
IsImage(k) == scanned[k].dicom /\ scanned[k].Modality \in ImageModalities
IsMask(k) == scanned[k].dicom /\ scanned[k].Modality = "RTSTRUCT"

\* an image file all of whose identifiers can be read
ReadableImage(k) ==
    /\ IsImage(k)
    /\ scanned[k].SeriesInstanceUID # Absent
    /\ scanned[k].FrameOfReferenceUID # Absent

\* the frame UID a mask file carries (Absent when none can be read)
MaskFrame(k) ==
    IF scanned[k].RefFrameUID # Absent THEN scanned[k].RefFrameUID
    ELSE scanned[k].FrameOfReferenceUID

\* the series UID resolved for a mask file
MaskSeries(k) ==
    IF scanned[k].RefSeriesUID = Absent THEN NotFound ELSE scanned[k].RefSeriesUID

ReadableMask(k) == IsMask(k) /\ MaskFrame(k) # Absent

ScannedSeries == {scanned[k].SeriesInstanceUID : k \in {n \in 1..Len(scanned) : ReadableImage(n)}}

FilesOfSeries(u) == {k \in 1..Len(scanned) : ReadableImage(k) /\ scanned[k].SeriesInstanceUID = u}

FirstFile(u) == CHOOSE k \in FilesOfSeries(u) : \A n \in FilesOfSeries(u) : k <= n

\* first-seen frame UID of a scanned series
FirstFrame(u) == scanned[FirstFile(u)].FrameOfReferenceUID

ScannedFrames == {FirstFrame(u) : u \in ScannedSeries}

\* a mask file that matches no scanned series, neither by series UID nor by frame UID
Unmatched(k) ==
    /\ ReadableMask(k)
    /\ MaskSeries(k) \notin ScannedSeries
    /\ MaskFrame(k) \notin ScannedFrames

Attached(k, j) == j <= Len(dicom.cell_path_rs) /\ k \in Range(dicom.cell_path_rs[j])

\* C1: a mask file that matches no series by series UID and none by frame UID
\* is attached to zero series and the association pass returns normally.
C1_UnmatchedMaskIsSkipped ==
    assoc_status # "scan" =>
        \A k \in 1..Len(scanned) :
            Unmatched(k) =>
                /\ assoc_status = "done"
                /\ \A j \in 1..Len(dicom.cell_path_rs) : ~Attached(k, j)

\* how often pass 2 is to append mask file k to the mask list of series u
ExpectedAppends(k, u) ==
    IF MaskSeries(k) \in ScannedSeries
        THEN (IF MaskSeries(k) = u THEN 1 ELSE 0)
        ELSE (IF MaskFrame(k) = FirstFrame(u) THEN 1 ELSE 0)

\* C2: after pass 2 every mask file is in the mask list of exactly the series
\* with its series UID; only a mask whose series UID matches no series is
\* matched by frame UID, once in every series with that first-seen frame UID.
C2_SeriesFirstThenFrame ==
    assoc_status # "scan" =>
        \A k \in 1..Len(scanned) : \A j \in 1..Len(dicom.cell_series_id) :
            (ReadableMask(k) /\ dicom.cell_series_id[j] \in ScannedSeries) =>
                /\ j <= Len(dicom.cell_path_rs)
                /\ Count(dicom.cell_path_rs[j], k) = ExpectedAppends(k, dicom.cell_series_id[j])

\* C3: a mask file whose resolved identifier is not among the known series
\* gets a new series slot: the per-series lists have one more position and
\* the mask path is stored in it.
C3_NewSlotForUnknownSeries ==
    assoc_status # "scan" =>
        \A k \in 1..Len(scanned) :
            Unmatched(k) =>
                \E j \in 1..Len(dicom.cell_path_rs) :
                    j > Cardinality(ScannedSeries) /\ Attached(k, j)

StrictlyIncreasing(s) == \A a, b \in 1..Len(s) : a < b => s[a] < s[b]

\* C4: after pass 1 every readable image file is in exactly the list of its
\* series, series UIDs are pairwise distinct, lists are in scan order, the
\* recorded frame UID is that of the first file of the series, and a file
\* whose identifiers cannot be read leaves no trace in the lists.
C4_PassOneGroupsBySeries ==
    assoc_status = "scan" =>
        /\ \A k \in 1..Len(scanned) :
            ReadableImage(k) =>
                \E j \in 1..Len(dicom.cell_series_id) :
                    /\ dicom.cell_series_id[j] = scanned[k].SeriesInstanceUID
                    /\ j <= Len(dicom.cell_path_images)
                    /\ Count(dicom.cell_path_images[j], k) = 1
                    /\ \A i \in 1..Len(dicom.cell_path_images) :
                        i # j => k \notin Range(dicom.cell_path_images[i])
        /\ \A a, b \in 1..Len(dicom.cell_series_id) :
            a # b => dicom.cell_series_id[a] # dicom.cell_series_id[b]
        /\ \A j \in 1..Len(dicom.cell_path_images) : StrictlyIncreasing(dicom.cell_path_images[j])
        /\ \A j \in 1..Len(dicom.cell_frame_id) :
            /\ j <= Len(dicom.cell_series_id)
            /\ dicom.cell_series_id[j] \in ScannedSeries
            /\ dicom.cell_frame_id[j] = FirstFrame(dicom.cell_series_id[j])
        /\ Range(dicom.cell_series_id) \subseteq ScannedSeries
        /\ \A j \in 1..Len(dicom.cell_path_images) :
            \A k \in Range(dicom.cell_path_images[j]) :
                IsImage(k) /\ scanned[k].SeriesInstanceUID # Absent
        /\ \A k \in Range(dicom.stack_path_rs) : ReadableMask(k)

(***************************************************************************)
(* MEDimage.scan.ROI: the ROI index store, and dense-mask reconstruction   *)
(***************************************************************************)
MaxKey == 1
MaxOps == 2
MaxRoiFiles == 2

\* A Python dict: the sequence of its items in insertion order.
dict_has(d, k) == \E i \in 1..Len(d) : d[i].k = k
dict_get(d, k) == d[CHOOSE i \in 1..Len(d) : d[i].k = k].v
dict_set(d, k, v) ==
    IF dict_has(d, k)
        THEN [i \in 1..Len(d) |-> IF d[i].k = k THEN [k |-> k, v |-> v] ELSE d[i]]
        ELSE Append(d, [k |-> k, v |-> v])
dict_keys(d) == {d[i].k : i \in 1..Len(d)}

\* str(key) for a non-negative int key
Digits == <<"0", "1", "2", "3", "4", "5", "6", "7", "8", "9">>
RECURSIVE str(_)
str(key) == IF key < 10 THEN Digits[key + 1] ELSE str(key \div 10) \o Digits[(key % 10) + 1]

\* Python None where a key is expected (keys are non-negative ints)
None == -1
Keys == 0..MaxKey

\* numpy arrays of three axes: functions of the 0-based coordinates
Shapes == {<<2, 1, 2>>, <<1, 2, 1>>}
size(shape) == shape[1] * shape[2] * shape[3]
Coords(shape) == (0..(shape[1] - 1)) \X (0..(shape[2] - 1)) \X (0..(shape[3] - 1))

\* position of coordinate c in the C-ordered (row-major) flat buffer
ravel_index(c, shape) == (c[1] * shape[2] + c[2]) * shape[3] + c[3]

\* ndarray.flatten()
flatten(arr, shape) ==
    [i \in 0..(size(shape) - 1) |->
        arr[CHOOSE c \in Coords(shape) : ravel_index(c, shape) = i]]

\* reshape reading the buffer in column-major order
reshape_fortran(flat, shape) ==
    [c \in Coords(shape) |-> flat[c[1] + shape[1] * (c[2] + shape[2] * c[3])]]

\* ndarray.reshape(shape) of a flat buffer
reshape(flat, shape) == [c \in Coords(shape) |-> flat[ravel_index(c, shape)]]

\* np.nonzero of a flat buffer
nonzero(flat) == {i \in DOMAIN flat : flat[i] # 0}

\* np.flip(np.flip(data, 0), 1)
convert_to_LPS(data, shape) ==
    [c \in Coords(shape) |-> data[<<shape[1] - 1 - c[1], shape[2] - 1 - c[2], c[3]>>]]

\* the value stored by update_indexes: the nonzero flat indices of a grid of
\* `size` voxels
IndexValues ==
    UNION {[nonzero : SUBSET (0..(size(sh) - 1)), size : {size(sh)}] : sh \in Shapes}

RoiNames == {<<"G">>, <<"L">>}
NameSets == {<<"T">>}
NameSetInfos == {<<"S", "S", "N">>}

EmptyROI == [indexes |-> <<>>, roi_names |-> <<>>, nameSet |-> <<>>, nameSetInfo |-> <<>>]

\* update_indexes rebinding the dict instead of setting one item
update_indexes_replace(r, key, indexes) ==
    [r EXCEPT !.indexes = <<[k |-> str(key), v |-> indexes]>>]

\* self.indexes[str(key)] = indexes
update_indexes(r, key, indexes) == [r EXCEPT !.indexes = dict_set(@, str(key), indexes)]

\* roi_names, nameSet and nameSetInfo are one dict object while `shared`
update_ROIname(r, shared, key, ROIname) ==
    IF shared
        THEN LET d == dict_set(r.roi_names, str(key), ROIname)
             IN  [r EXCEPT !.roi_names = d, !.nameSet = d, !.nameSetInfo = d]
        ELSE [r EXCEPT !.roi_names = dict_set(@, str(key), ROIname)]

update_nameSet(r, shared, key, nameSet) ==
    IF shared
        THEN LET d == dict_set(r.nameSet, str(key), nameSet)
             IN  [r EXCEPT !.roi_names = d, !.nameSet = d, !.nameSetInfo = d]
        ELSE [r EXCEPT !.nameSet = dict_set(@, str(key), nameSet)]

update_nameSetInfo(r, shared, key, nameSetInfo) ==
    IF shared
        THEN LET d == dict_set(r.nameSetInfo, str(key), nameSetInfo)
             IN  [r EXCEPT !.roi_names = d, !.nameSet = d, !.nameSetInfo = d]
        ELSE [r EXCEPT !.nameSetInfo = dict_set(@, str(key), nameSetInfo)]

\* outcome of an operation: exc is "none" or the exception that left it
Returned(op, key, kind, val) ==
    [op |-> op, key |-> key, exc |-> "none", kind |-> kind, val |-> val]
Raised(op, key, exc) ==
    [op |-> op, key |-> key, exc |-> exc, kind |-> "none", val |-> {}]

\* ROI.get_indexes: {} for an empty store or a None key, else self.indexes[str(key)]
get_indexes(r, key) ==
    IF r.indexes = <<>> \/ key = None THEN Returned("get_indexes", key, "dict", {})
    ELSE IF dict_has(r.indexes, str(key))
        THEN Returned("get_indexes", key, "indexes", dict_get(r.indexes, str(key)))
    ELSE Raised("get_indexes", key, "KeyError")

\* get_ROI_from_indexes dropping the indices past the end of the buffer
get_ROI_from_indexes_clip(r, shape, key) ==
    LET got == get_indexes(r, key)
        op == "get_ROI_from_indexes"
    IN  IF got.exc # "none" THEN Raised(op, key, got.exc)
        ELSE IF got.kind = "dict" THEN Raised(op, key, "IndexError")
        ELSE Returned(op, key, "mask",
                reshape([i \in 0..(size(shape) - 1) |-> IF i \in got.val.nonzero THEN 1 ELSE 0],
                        shape))

\* scan.get_ROI_from_indexes: zeros, roi_volume[indexes] = 1, reshape
get_ROI_from_indexes(r, shape, key) ==
    LET got == get_indexes(r, key)
        op == "get_ROI_from_indexes"
    IN  IF got.exc # "none" THEN Raised(op, key, got.exc)
        ELSE IF got.kind = "dict" THEN Raised(op, key, "IndexError")
        ELSE IF \E i \in got.val.nonzero : i >= size(shape) THEN Raised(op, key, "IndexError")
        ELSE Returned(op, key, "mask",
                reshape([i \in 0..(size(shape) - 1) |-> IF i \in got.val.nonzero THEN 1 ELSE 0],
                        shape))

\* ---- file names: Python str as a sequence of characters ----

\* str.find(ch): 0-based position of the first ch, -1 when there is none
find(s, ch) ==
    IF \E i \in 1..Len(s) : s[i] = ch
        THEN (CHOOSE i \in 1..Len(s) : s[i] = ch /\ \A j \in 1..(i - 1) : s[j] # ch) - 1
        ELSE -1

\* s[a:b] with Python's treatment of negative and out-of-range bounds
slice(s, a, b) ==
    LET norm(x) == IF x < 0 THEN (IF x + Len(s) < 0 THEN 0 ELSE x + Len(s))
                   ELSE (IF x > Len(s) THEN Len(s) ELSE x)
    IN  SubSeq(s, norm(a) + 1, norm(b))

startswith(s, prefix) == Len(prefix) <= Len(s) /\ SubSeq(s, 1, Len(prefix)) = prefix
endswith(s, suffix) ==
    Len(suffix) <= Len(s) /\ SubSeq(s, Len(s) - Len(suffix) + 1, Len(s)) = suffix

\* word in s.split(sep), for a word that does not contain sep
in_split(word, s, sep) ==
    \E a \in 1..(Len(s) + 1 - Len(word)) :
        LET b == a + Len(word) - 1
        IN  /\ (a = 1 \/ s[a - 1] = sep)
            /\ (b = Len(s) \/ s[b + 1] = sep)
            /\ SubSeq(s, a, b) = word

\* s.split(sep)[0]
split_first(s, sep) == IF find(s, sep) = -1 THEN s ELSE SubSeq(s, 1, find(s, sep))

ROI_word == <<"R", "O", "I">>
nii_gz == <<"n", "i", "i", ".", "g", "z">>

\* the array of the given shape whose nonzero voxels are nz
Arr(shape, nz) == [c \in Coords(shape) |-> IF c \in nz THEN 1 ELSE 0]

\* the NIfTI files a patient folder may hold: name, and shape and content of
\* get_fdata(); a file is referred to by its position in this table
RoiDirFiles ==
    << [name |-> <<"P", "_", "_", "T", "(", "G", ")", ".", "R", "O", "I", ".", "n", "i", "i", ".", "g", "z">>,
       shape |-> <<2, 1, 2>>, data |-> Arr(<<2, 1, 2>>, {<<0, 0, 1>>})],
      [name |-> <<"P", "_", "_", "T", "(", "L", ")", ".", "R", "O", "I", ".", "n", "i", "i", ".", "g", "z">>,
       shape |-> <<1, 2, 1>>, data |-> Arr(<<1, 2, 1>>, {<<0, 0, 0>>})],
      [name |-> <<"Q", "_", "_", "T", "(", "G", ")", ".", "R", "O", "I", ".", "n", "i", "i", ".", "g", "z">>,
       shape |-> <<2, 1, 2>>, data |-> Arr(<<2, 1, 2>>, {<<1, 0, 0>>, <<1, 0, 1>>})] >>

\* the sequences of at most n distinct elements of S
RECURSIVE SeqsUpTo(_, _)
SeqsUpTo(S, n) ==
    IF n = 0 THEN {<<>>}
    ELSE LET shorter == SeqsUpTo(S, n - 1)
         IN  shorter \cup UNION {{Append(q, x) : x \in S \ Range(q)} : q \in shorter}

\* os.listdir(ROI_path), respectively the NIfTI files found by
\* __read_all_niftis: distinct files in any order
Listings == SeqsUpTo(DOMAIN RoiDirFiles, MaxRoiFiles)

PatientID == <<"P", "_", "_", "T">>
ImageFileNames ==
    { <<"P", "_", "_", "T", "(", "a", ")", ".", "C", "T", ".", "n", "i", "i", ".", "g", "z">> }

\* roi_name and nameSet as cut from the file name
roi_name_of(file) == slice(file, find(file, "(") + 1, find(file, ")"))
name_set_of(file) == slice(file, find(file, "_") + 2, find(file, "("))

\* np.nonzero(convert_to_LPS(roi.get_fdata()).flatten())
roi_indexes_of(f) ==
    [nonzero |-> nonzero(flatten(convert_to_LPS(f.data, f.shape), f.shape)),
     size |-> size(f.shape)]

\* what the loops below read from the file at each position of RoiDirFiles:
\* the tests on its name, the names cut out of it, and its mask indexes
RoiFileFacts ==
    [i \in DOMAIN RoiDirFiles |->
        LET f == RoiDirFiles[i]
        IN  [is_ROI |-> in_split(ROI_word, f.name, "."),
             is_nii_gz |-> endswith(f.name, nii_gz),
             roi_name |-> roi_name_of(f.name),
             name_set |-> name_set_of(f.name),
             indexes |-> roi_indexes_of(f)]]

\* the loop of ROI.get_ROI_from_path over os.listdir(ROI_path)
RECURSIVE roi_from_path_loop(_, _, _, _)
roi_from_path_loop(r, files, ID, roi_index) ==
    IF files = <<>> THEN r
    ELSE LET f == RoiDirFiles[Head(files)]
             facts == RoiFileFacts[Head(files)]
         IN  IF startswith(f.name, ID) /\ facts.is_nii_gz /\ facts.is_ROI
                 THEN roi_from_path_loop(
                        update_ROIname(
                            update_nameSet(
                                update_indexes(r, roi_index, facts.indexes),
                                FALSE, roi_index, facts.name_set),
                            FALSE, roi_index, facts.roi_name),
                        Tail(files), ID, roi_index + 1)
                 ELSE roi_from_path_loop(r, Tail(files), ID, roi_index)

\* ROI.get_ROI_from_path: the four dicts are replaced by fresh ones first
get_ROI_from_path(files, ID) == roi_from_path_loop(EmptyROI, files, ID, 0)

\* __read_all_niftis: stack_path_roi holds the files with 'ROI' in name.split(".")
RECURSIVE stack_path_roi(_)
stack_path_roi(files) ==
    IF files = <<>> THEN <<>>
    ELSE (IF RoiFileFacts[Head(files)].is_ROI THEN <<Head(files)>> ELSE <<>>)
         \o stack_path_roi(Tail(files))

\* DataManager.__associate_roi_to_image: the first matching file stores its
\* indexes, then ROI.update_name_set, which the ROI class does not define,
\* raises AttributeError
RECURSIVE associate_roi_to_image(_, _, _)
associate_roi_to_image(r, files, image_file) ==
    IF files = <<>> THEN [exc |-> "none", roi |-> r]
    ELSE LET f == RoiDirFiles[Head(files)]
             _id == split_first(image_file, "(")
         IN  IF startswith(f.name, _id) /\ RoiFileFacts[Head(files)].is_ROI
                 THEN [exc |-> "AttributeError",
                       roi |-> update_indexes(r, 0, RoiFileFacts[Head(files)].indexes)]
                 ELSE associate_roi_to_image(r, Tail(files), image_file)

\* ---- the ROI store as a state machine ----

\* ROI(indexes, roi_names): a non-empty roi_names becomes roi_names, nameSet
\* and nameSetInfo at once
InitialRoiNames == {<<>>, <<[k |-> "0", v |-> <<"G">>]>>}

InitROI ==
    /\ IdleDicom /\ IdleSlices /\ IdleCombine /\ IdleSpatial /\ IdlePipeline
    /\ volume_shape \in Shapes
    /\ \E names \in InitialRoiNames :
        /\ roi = [indexes |-> <<>>, roi_names |-> names, nameSet |-> names, nameSetInfo |-> names]
        /\ alias = (names # <<>>)
    /\ ret = [op |-> "none"]
    /\ n_ops = 0

UpdateIndexes ==
    /\ n_ops < MaxOps
    /\ \E key \in Keys, indexes \in IndexValues :
        /\ roi' = update_indexes(roi, key, indexes)
        /\ ret' = Returned("update_indexes", key, "none", {})
    /\ n_ops' = n_ops + 1
    /\ UNCHANGED <<alias, volume_shape, dicomVars, sliceVars, combineVars, spatialVars, pipelineVars>>

UpdateROIname ==
    /\ n_ops < MaxOps
    /\ \E key \in Keys, name \in RoiNames :
        /\ roi' = update_ROIname(roi, alias, key, name)
        /\ ret' = Returned("update_ROIname", key, "none", {})
    /\ n_ops' = n_ops + 1
    /\ UNCHANGED <<alias, volume_shape, dicomVars, sliceVars, combineVars, spatialVars, pipelineVars>>

UpdateNameSet ==
    /\ n_ops < MaxOps
    /\ \E key \in Keys, name \in NameSets :
        /\ roi' = update_nameSet(roi, alias, key, name)
        /\ ret' = Returned("update_nameSet", key, "none", {})
    /\ n_ops' = n_ops + 1
    /\ UNCHANGED <<alias, volume_shape, dicomVars, sliceVars, combineVars, spatialVars, pipelineVars>>

UpdateNameSetInfo ==
    /\ n_ops < MaxOps
    /\ \E key \in Keys, name \in NameSetInfos :
        /\ roi' = update_nameSetInfo(roi, alias, key, name)
        /\ ret' = Returned("update_nameSetInfo", key, "none", {})
    /\ n_ops' = n_ops + 1
    /\ UNCHANGED <<alias, volume_shape, dicomVars, sliceVars, combineVars, spatialVars, pipelineVars>>

GetIndexes ==
    /\ n_ops < MaxOps
    /\ \E key \in Keys \cup {None} : ret' = get_indexes(roi, key)
    /\ n_ops' = n_ops + 1
    /\ UNCHANGED <<roi, alias, volume_shape, dicomVars, sliceVars, combineVars, spatialVars, pipelineVars>>

GetROIFromIndexes ==
    /\ n_ops < MaxOps
    /\ \E key \in Keys \cup {None} : ret' = get_ROI_from_indexes(roi, volume_shape, key)
    /\ n_ops' = n_ops + 1
    /\ UNCHANGED <<roi, alias, volume_shape, dicomVars, sliceVars, combineVars, spatialVars, pipelineVars>>

GetROIFromPath ==
    /\ n_ops < MaxOps
    /\ \E files \in Listings :
        /\ roi' = get_ROI_from_path(files, PatientID)
        /\ ret' = [op |-> "get_ROI_from_path", key |-> None, exc |-> "none",
                   kind |-> "none", val |-> {}, files |-> files]
    /\ alias' = FALSE
    /\ n_ops' = n_ops + 1
    /\ UNCHANGED <<volume_shape, dicomVars, sliceVars, combineVars, spatialVars, pipelineVars>>

AssociateRoiToImage ==
    /\ n_ops < MaxOps
    /\ \E files \in Listings, image_file \in ImageFileNames :
        LET r == associate_roi_to_image(roi, stack_path_roi(files), image_file)
        IN  /\ roi' = r.roi
            /\ ret' = [op |-> "associate_roi_to_image", key |-> None, exc |-> r.exc,
                       kind |-> "none", val |-> {}, files |-> files, image_file |-> image_file]
    /\ n_ops' = n_ops + 1
    /\ UNCHANGED <<alias, volume_shape, dicomVars, sliceVars, combineVars, spatialVars, pipelineVars>>

NextROI ==
    \/ UpdateIndexes
    \/ UpdateROIname
    \/ UpdateNameSet
    \/ UpdateNameSetInfo
    \/ GetIndexes
    \/ GetROIFromIndexes
    \/ GetROIFromPath
    \/ AssociateRoiToImage

SpecROI == InitROI /\ [][NextROI]_vars

(***************************************************************************)
(* Claims about the ROI store                                              *)
(***************************************************************************)
KeyIsSet(key) == key # None /\ dict_has(roi.indexes, str(key))
Stored(key) == dict_get(roi.indexes, str(key))

\* C5: get_indexes of a key that holds no indices returns an empty result
\* and raises nothing, whatever else the store holds.
C5_UnsetKeyGivesEmpty ==
    (ret.op = "get_indexes" /\ ret.key # None /\ ~KeyIsSet(ret.key)) =>
        (ret.exc = "none" /\ ret.kind = "dict" /\ ret.val = {})

\* C6 as stated: reconstruction raises whenever the grid the indices were
\* taken from and the target volume differ in voxel count.
C6_MismatchAlwaysFails ==
    (ret.op = "get_ROI_from_indexes" /\ KeyIsSet(ret.key)
        /\ Stored(ret.key).size # size(volume_shape)) =>
            ret.exc # "none"

\* C6 amended: reconstruction raises IndexError exactly when some stored index
\* is not below the voxel count of the target volume; otherwise it returns a
\* mask, also when the voxel counts differ.
C6_FailsIffIndexOutOfRange ==
    (ret.op = "get_ROI_from_indexes" /\ KeyIsSet(ret.key)) =>
        /\ ret.exc = "IndexError" <=> (\E i \in Stored(ret.key).nonzero : i >= size(volume_shape))
        /\ ret.exc \in {"none", "IndexError"}
        /\ ret.exc = "none" => ret.kind = "mask"

C6_Witness ==
    /\ ret.op = "get_ROI_from_indexes" /\ KeyIsSet(ret.key)
    /\ Stored(ret.key).size > size(volume_shape)
    /\ ret.exc = "IndexError"

\* C7: the mask built from a set S of flat indices below the voxel count has
\* the shape of the volume and its flattened nonzero positions are exactly S.
C7_RoundTrip ==
    (ret.op = "get_ROI_from_indexes" /\ KeyIsSet(ret.key)
        /\ Stored(ret.key).nonzero \subseteq 0..(size(volume_shape) - 1)) =>
            /\ ret.exc = "none" /\ ret.kind = "mask"
            /\ DOMAIN ret.val = Coords(volume_shape)
            /\ nonzero(flatten(ret.val, volume_shape)) = Stored(ret.key).nonzero

C7_Witness ==
    /\ ret.op = "get_ROI_from_indexes" /\ KeyIsSet(ret.key)
    /\ volume_shape = <<2, 1, 2>>
    /\ Stored(ret.key).nonzero = {1, 3}
    /\ ret.kind = "mask"

\* the files of a listing that belong to the image, in listing order
RECURSIVE MatchedFiles(_, _)
MatchedFiles(files, ID) ==
    IF files = <<>> THEN <<>>
    ELSE (IF startswith(RoiDirFiles[Head(files)].name, ID)
                /\ in_split(ROI_word, RoiDirFiles[Head(files)].name, ".")
            THEN <<RoiDirFiles[Head(files)]>> ELSE <<>>) \o MatchedFiles(Tail(files), ID)

\* the text of name strictly between its "(" and its ")"
BetweenParentheses(name) ==
    LET a == CHOOSE i \in 1..Len(name) : name[i] = "("
        b == CHOOSE i \in 1..Len(name) : name[i] = ")"
    IN  [i \in 1..(b - a - 1) |-> name[a + i]]

\* the store holds exactly the keys 0..k-1, key i describing matched file i+1
HoldsExactly(matched) ==
    /\ dict_keys(roi.indexes) = {str(i) : i \in 0..(Len(matched) - 1)}
    /\ dict_keys(roi.roi_names) = dict_keys(roi.indexes)
    /\ dict_keys(roi.nameSet) = dict_keys(roi.indexes)
    /\ \A i \in 0..(Len(matched) - 1) :
        /\ dict_get(roi.indexes, str(i)) = roi_indexes_of(matched[i + 1])
        /\ dict_get(roi.roi_names, str(i)) = BetweenParentheses(matched[i + 1].name)
        /\ dict_get(roi.nameSet, str(i)) = <<"T">>

\* C8: ROI association of an image with k matching mask files completes and
\* leaves the keys 0..k-1 with indices, ROI name and name-set of each file,
\* for get_ROI_from_path and for __associate_roi_to_image on a fresh store.
C8_AssociationFillsStore ==
    /\ ret.op = "get_ROI_from_path" =>
        (ret.exc = "none" /\ HoldsExactly(MatchedFiles(ret.files, PatientID)))
    /\ (ret.op = "associate_roi_to_image" /\ n_ops = 1 /\ ~alias) =>
        (ret.exc = "none" /\ HoldsExactly(MatchedFiles(ret.files, PatientID)))

RoiMaps(r) == <<r.indexes, r.roi_names, r.nameSet, r.nameSetInfo>>

\* C9 as stated: a key that holds a record holds the same record in every
\* later state.
C9_RecordsNeverChange ==
    [][\A m \in 1..4 : \A k \in dict_keys(RoiMaps(roi)[m]) :
            /\ dict_has(RoiMaps(roi')[m], k)
            /\ dict_get(RoiMaps(roi')[m], k) = dict_get(RoiMaps(roi)[m], k)]_vars

\* the key an operation writes
WrittenKey(r) ==
    IF r.op = "associate_roi_to_image" THEN "0"
    ELSE IF r.op \in {"update_indexes", "update_ROIname", "update_nameSet", "update_nameSetInfo"}
        THEN str(r.key)
    ELSE "none"

\* C9 amended: no operation but get_ROI_from_path removes a key, and a record
\* stays as it is until its own key is written again.
C9_RecordsKeptUntilRewritten ==
    [][(ret'.op # "get_ROI_from_path" /\ roi' # roi) =>
        LET old == RoiMaps(roi)
            new == RoiMaps(roi')
            written == WrittenKey(ret')
        IN  \A m \in 1..4 : \A i \in 1..Len(old[m]) :
                \* a dict keeps its items in insertion order: the key stays in place
                /\ i <= Len(new[m])
                /\ new[m][i].k = old[m][i].k
                /\ old[m][i].k # written => new[m][i].v = old[m][i].v]_vars

C9_Witness ==
    /\ ret.op = "update_indexes" /\ n_ops = 2
    /\ Len(roi.indexes) = 2
    /\ roi.indexes[2].k = str(ret.key)

(***************************************************************************)
(* combine_slices: the slice spacing check of the geometry validation      *)
(***************************************************************************)
MaxSlices == 3

\* direction cosines (row cosine, column cosine) of an axial series, the
\* second pair with the slice normal pointing along -z
Orientations == {<<1, 0, 0, 0, 1, 0>>, <<0, 1, 0, 1, 0, 0>>}

\* z coordinates of ImagePositionPatient
ZValues == {0, 1, 2, 3, 10, 11, 20, 21, 22, 30, 32}

Abs(x) == IF x < 0 THEN -x ELSE x

\* np.dot and np.cross of 3-vectors
dot(a, b) == a[1] * b[1] + a[2] * b[2] + a[3] * b[3]
cross(a, b) ==
    <<a[2] * b[3] - a[3] * b[2], a[3] * b[1] - a[1] * b[3], a[1] * b[2] - a[2] * b[1]>>

\* row_cosine, column_cosine, slice_cosine
_extract_cosines(image_orientation) ==
    LET row_cosine == SubSeq(image_orientation, 1, 3)
        column_cosine == SubSeq(image_orientation, 4, 6)
    IN  <<row_cosine, column_cosine, cross(row_cosine, column_cosine)>>

_slice_positions(datasets) ==
    LET slice_cosine == _extract_cosines(datasets[1].ImageOrientationPatient)[3]
    IN  [i \in 1..Len(datasets) |-> dot(slice_cosine, datasets[i].ImagePositionPatient)]

\* sorted(): ascending, by insertion
RECURSIVE insert(_, _)
insert(s, x) ==
    IF s = <<>> THEN <<x>>
    ELSE IF x < Head(s) THEN <<x>> \o s
    ELSE <<Head(s)>> \o insert(Tail(s), x)

RECURSIVE sorted(_)
sorted(s) == IF s = <<>> THEN <<>> ELSE insert(sorted(Tail(s)), Head(s))

\* np.diff
diff(s) == [i \in 1..(Len(s) - 1) |-> s[i + 1] - s[i]]

\* np.allclose(a, b, atol=0, rtol=num/den) with a scalar b, |a - b| < rtol * |b|
allclose_strict(a, b, num, den) == \A i \in 1..Len(a) : Abs(a[i] - b) * den < num * Abs(b)

\* np.allclose(a, b, atol=0, rtol=num/den) with a scalar b: |a - b| <= rtol * |b|
allclose(a, b, num, den) == \A i \in 1..Len(a) : Abs(a[i] - b) * den <= num * Abs(b)

\* _check_for_missing_slices: slice_positions_diffs[0] of an empty array
\* raises IndexError; rtol=1e-5 warns, rtol=1e-1 raises ValueError
_check_for_missing_slices(slice_positions) ==
    LET slice_positions_diffs == diff(sorted(slice_positions))
    IN  IF Len(slice_positions_diffs) = 0
            THEN [result |-> "IndexError", warned |-> FALSE]
        ELSE [result |-> IF allclose(slice_positions_diffs, slice_positions_diffs[1], 1, 10)
                            THEN "ok" ELSE "MissingSlices",
              warned |-> ~allclose(slice_positions_diffs, slice_positions_diffs[1], 1, 100000)]

\* the slices of one series: same orientation, any positions in any order
SliceSeries ==
    UNION {[1..n -> [ImageOrientationPatient : {o}, ImagePositionPatient : {<<0, 0, z>> : z \in ZValues}]]
            : n \in 1..MaxSlices, o \in Orientations}

InitSlices ==
    /\ IdleDicom /\ IdleROI /\ IdleCombine /\ IdleSpatial /\ IdlePipeline
    /\ slice_datasets \in SliceSeries
    /\ validation = "pending"
    /\ warned = FALSE

CheckForMissingSlices ==
    /\ validation = "pending"
    /\ LET r == _check_for_missing_slices(_slice_positions(slice_datasets))
       IN  validation' = r.result /\ warned' = r.warned
    /\ UNCHANGED <<slice_datasets, dicomVars, roiVars, combineVars, spatialVars, pipelineVars>>

NextSlices == CheckForMissingSlices

SpecSlices == InitSlices /\ [][NextSlices]_vars

(***************************************************************************)
(* Claims about the slice spacing check                                    *)
(***************************************************************************)
\* the k-th smallest of the projected positions of the series
Projected == _slice_positions(slice_datasets)
KthSmallest(k) ==
    CHOOSE v \in Range(Projected) :
        /\ Cardinality({i \in 1..Len(Projected) : Projected[i] < v}) < k
        /\ Cardinality({i \in 1..Len(Projected) : Projected[i] <= v}) >= k

\* the k-th consecutive step of the sorted projected positions
Step(k) == KthSmallest(k + 1) - KthSmallest(k)

\* step k differs from the first step by more than num/den of the first step
Deviates(k, num, den) == Abs(Step(k) - Step(1)) * den > num * Abs(Step(1))

invariant_properties ==
    <<"Modality", "SOPClassUID", "SeriesInstanceUID", "Rows", "Columns",
      "ImageOrientationPatient", "PixelSpacing", "PixelRepresentation",
      "BitsAllocated", "BitsStored", "HighBit">>

\* a dataset is a record holding every attribute; an attribute the DICOM file
\* does not carry holds the value NoAttr of its type
NoAttr(name) ==
    IF name \in {"Modality", "SOPClassUID", "SeriesInstanceUID"} THEN Absent
    ELSE IF name \in {"ImageOrientationPatient", "PixelSpacing", "pixel_array",
                      "RescaleSlope", "RescaleIntercept"} THEN <<>>
    ELSE None

hasattr(dataset, name) == dataset[name] # NoAttr(name)

\* 1.0, 1e-4 and 1e-8 in units of 1e-8; 1/rel_tol of is_close
One == 100000000
HardTol == 10000
SoftTol == 1
RelTolInv == 1000000000

max(x, y) == IF x >= y THEN x ELSE y

\* is_close(a, b, rel_tol=1e-9, abs_tol) on quantities held in units of 1e-8:
\* abs(a-b) is a whole number of units, so comparing it with the floor of
\* rel_tol*max(|a|,|b|) is exact
is_close(a, b, abs_tol) == Abs(a - b) <= max(max(Abs(a), Abs(b)) \div RelTolInv, abs_tol)

_almost_zero(value, abs_tol) == is_close(value, 0, abs_tol)

\* the comparison with the tolerance left out of the accepted range
_almost_one_strict(value, abs_tol) == Abs(value - One) < abs_tol

_almost_one(value, abs_tol) == is_close(value, One, abs_tol)

\* _validate_image_orientation on the quantities it computes from the cosines:
\* q.dot = np.dot(row_cosine, column_cosine), q.row_norm and q.column_norm the
\* np.linalg.norm of the two cosines (units of 1e-8). A raise ends the
\* function; the warnings issued before it stay issued.
_validate_image_orientation(q) ==
    LET w_dot == IF ~_almost_zero(q.dot, SoftTol) THEN {"dot"} ELSE {}
        w_row == IF ~_almost_one(q.row_norm, SoftTol) THEN {"row_norm"} ELSE {}
        w_col == IF ~_almost_one(q.column_norm, SoftTol) THEN {"column_norm"} ELSE {}
    IN  IF ~_almost_zero(q.dot, HardTol)
            THEN [status |-> "NonOrthogonal", warnings |-> {}]
        ELSE IF ~_almost_one(q.row_norm, HardTol)
            THEN [status |-> "RowNotUnit", warnings |-> w_dot]
        ELSE IF ~_almost_one(q.column_norm, HardTol)
            THEN [status |-> "ColumnNotUnit", warnings |-> w_dot \cup w_row]
        ELSE [status |-> "ok", warnings |-> w_dot \cup w_row \cup w_col]

\* np.linalg.norm of a vector of whole numbers whose length is a whole number
norm(v) == CHOOSE n \in 0..dot(v, v) : n * n = dot(v, v)

\* np.dot and np.linalg.norm of the cosines of an orientation, in units of 1e-8
cosine_measures(image_orientation) ==
    LET c == _extract_cosines(image_orientation)
    IN  [dot |-> dot(c[1], c[2]) * One,
         row_norm |-> norm(c[1]) * One,
         column_norm |-> norm(c[2]) * One]

\* the comparison that leaves out the slice after the first
first_unequal_property_from_third(datasets) ==
    LET bad == {p \in 1..Len(invariant_properties) :
                  \E i \in 3..Len(datasets) :
                      datasets[i][invariant_properties[p]] # datasets[1][invariant_properties[p]]}
    IN  IF bad = {} THEN Absent
        ELSE invariant_properties[CHOOSE p \in bad : \A q \in bad : p <= q]

\* _slice_attribute_equal for every property, in order: the first property
\* on which some slice differs from slice_datasets[0], or Absent
first_unequal_property(datasets) ==
    LET bad == {p \in 1..Len(invariant_properties) :
                  \E i \in 2..Len(datasets) :
                      datasets[i][invariant_properties[p]] # datasets[1][invariant_properties[p]]}
    IN  IF bad = {} THEN Absent
        ELSE invariant_properties[CHOOSE p \in bad : \A q \in bad : p <= q]

\* _validate_slices_form_uniform_grid: [status, warnings]
_validate_slices_form_uniform_grid(datasets) ==
    IF first_unequal_property(datasets) # Absent
        THEN [status |-> "GridInconsistency", warnings |-> {}]
    ELSE IF ~hasattr(datasets[1], "ImageOrientationPatient")
        THEN [status |-> "AttributeError", warnings |-> {}]
    ELSE LET o == _validate_image_orientation(
                      cosine_measures(datasets[1].ImageOrientationPatient))
         IN  IF o.status # "ok" THEN o
             ELSE LET m == _check_for_missing_slices(_slice_positions(datasets))
                  IN  [status |-> m.result,
                       warnings |-> o.warnings \cup (IF m.warned THEN {"spacing"} ELSE {})]

\* sorted(zip(slice_spacing, slice_datasets)) compares two tuples by their
\* positions and, when these are equal, by the datasets: equal datasets are
\* in order, unequal ones raise TypeError (a Dataset has no ordering)
sort_raises(positions, datasets) ==
    \E i, j \in 1..Len(datasets) :
        i # j /\ positions[i] = positions[j] /\ datasets[i] # datasets[j]

\* insertion of index x into the index list s ordered by position
RECURSIVE insert_by(_, _, _)
insert_by(s, x, positions) ==
    IF s = <<>> THEN <<x>>
    ELSE IF positions[x] < positions[Head(s)] THEN <<x>> \o s
    ELSE <<Head(s)>> \o insert_by(Tail(s), x, positions)

RECURSIVE sorted_indices(_, _)
sorted_indices(n, positions) ==
    IF n = 0 THEN <<>> ELSE insert_by(sorted_indices(n - 1, positions), n, positions)

\* the slices left in the order of the input list
_sort_by_input_order(datasets) == datasets

\* _sort_by_slice_spacing, when no comparison raises
_sort_by_slice_spacing(datasets) ==
    LET order == sorted_indices(Len(datasets), _slice_positions(datasets))
    IN  [k \in 1..Len(datasets) |-> datasets[order[k]]]

_requires_rescaling(dataset) ==
    hasattr(dataset, "RescaleSlope") \/ hasattr(dataset, "RescaleIntercept")

\* float(getattr(dataset, name, default))
float_attr(dataset, name, default) ==
    IF hasattr(dataset, name) THEN dataset[name][1] ELSE default

\* voxel indices (c, r, k) of an array of shape (num_columns, num_rows, num_slices)
VoxelIndices(num_columns, num_rows, num_slices) ==
    (0..(num_columns - 1)) \X (0..(num_rows - 1)) \X (0..(num_slices - 1))

\* np.empty: the contents are arbitrary until assigned; writes counts the
\* assignments made to each voxel
np_empty(num_columns, num_rows, num_slices, dtype) ==
    [dtype |-> dtype,
     shape |-> <<num_columns, num_rows, num_slices>>,
     data |-> [x \in VoxelIndices(num_columns, num_rows, num_slices) |-> 0],
     writes |-> [x \in VoxelIndices(num_columns, num_rows, num_slices) |-> 0]]

\* the rescaling of the wrong slice: every slice takes the parameters of the first
plane_of_first(dataset, first, rescale) ==
    LET slope == float_attr(first, "RescaleSlope", 1)
        intercept == float_attr(first, "RescaleIntercept", 0)
    IN  [c \in 0..(Len(dataset.pixel_array[1]) - 1) |->
            [r \in 0..(Len(dataset.pixel_array) - 1) |->
                IF rescale THEN dataset.pixel_array[r + 1][c + 1] * slope + intercept
                ELSE dataset.pixel_array[r + 1][c + 1]]]

\* dataset.pixel_array.T, rescaled with the slice's own slope and intercept
\* when the volume is rescaled; first is sorted_slice_datasets[0]
plane_of(dataset, first, rescale) ==
    LET slope == float_attr(dataset, "RescaleSlope", 1)
        intercept == float_attr(dataset, "RescaleIntercept", 0)
    IN  [c \in 0..(Len(dataset.pixel_array[1]) - 1) |->
            [r \in 0..(Len(dataset.pixel_array) - 1) |->
                IF rescale THEN dataset.pixel_array[r + 1][c + 1] * slope + intercept
                ELSE dataset.pixel_array[r + 1][c + 1]]]

\* voxels[:, :, :] = plane: the plane written to every slice position
assign_plane_everywhere(voxels, k, plane) ==
    [voxels EXCEPT
        !.data = [x \in DOMAIN voxels.data |-> plane[x[1]][x[2]]],
        !.writes = [x \in DOMAIN voxels.writes |-> voxels.writes[x] + 1]]

\* voxels[:, :, k] = plane
assign_plane(voxels, k, plane) ==
    [voxels EXCEPT
        !.data = [x \in DOMAIN voxels.data |->
                    IF x[3] = k THEN plane[x[1]][x[2]] ELSE voxels.data[x]],
        !.writes = [x \in DOMAIN voxels.writes |->
                    IF x[3] = k THEN voxels.writes[x] + 1 ELSE voxels.writes[x]]]

\* for k, dataset in enumerate(sorted_slice_datasets), from position k on
RECURSIVE merge_loop(_, _, _, _)
merge_loop(voxels, k, sorted_slice_datasets, rescale) ==
    IF k >= Len(sorted_slice_datasets) THEN voxels
    ELSE merge_loop(
            assign_plane(voxels, k,
                plane_of(sorted_slice_datasets[k + 1], sorted_slice_datasets[1], rescale)),
            k + 1, sorted_slice_datasets, rescale)

\* _merge_slice_pixel_arrays, after Rows and Columns were read and the sort
\* went through
_merge_slice_pixel_arrays(datasets) ==
    LET first_dataset == datasets[1]
        sorted_slice_datasets == _sort_by_slice_spacing(datasets)
        rescale == \E i \in 1..Len(datasets) : _requires_rescaling(sorted_slice_datasets[i])
        dtype == IF rescale THEN "float32" ELSE first_dataset.dtype
    IN  merge_loop(np_empty(first_dataset.Columns, first_dataset.Rows, Len(datasets), dtype),
                   0, sorted_slice_datasets, rescale)

\* a number num/den, den > 0; the means of whole slice steps are such numbers
Q(x) == [num |-> x, den |-> 1]
q_mul(a, b) == [num |-> a.num * b.num, den |-> a.den * b.den]
q_add(a, b) == [num |-> a.num * b.den + b.num * a.den, den |-> a.den * b.den]
q_eq(a, b) == a.num * b.den = b.num * a.den

RECURSIVE Sum(_)
Sum(s) == IF s = <<>> THEN 0 ELSE Head(s) + Sum(Tail(s))

\* np.mean of a non-empty array of whole numbers
mean(s) == [num |-> Sum(s), den |-> Len(s)]

\* _slice_spacing: the mean of the consecutive differences, 0.0 for one slice
_slice_spacing(datasets) ==
    IF Len(datasets) > 1
        THEN mean(diff(sorted(_slice_positions(datasets))))
    ELSE Q(0)

\* np.identity(n)
identity(n) == [i \in 1..n |-> [j \in 1..n |-> IF i = j THEN Q(1) ELSE Q(0)]]

\* m[:3, j] = v (v a 3-vector) and m[i, j] = x, positions counted from 1
set_column(m, j, v) ==
    [i \in 1..Len(m) |-> IF i <= 3 THEN [m[i] EXCEPT ![j] = v[i]] ELSE m[i]]
set_entry(m, i, j, x) == [m EXCEPT ![i][j] = x]

\* the matrix left as assembled
not_transposed(m) == m

\* np.transpose
transpose(m) == [i \in 1..Len(m) |-> [j \in 1..Len(m) |-> m[j][i]]]

\* v*x for a vector of whole numbers v and a number x
scale_vector(v, x) == [i \in 1..Len(v) |-> q_mul(Q(v[i]), x)]
q_vector(v) == [i \in 1..Len(v) |-> Q(v[i])]

\* _ijk_to_patient_xyz_transform_matrix, after PixelSpacing was found present
_ijk_to_patient_xyz_transform_matrix(datasets) ==
    LET first_dataset == _sort_by_slice_spacing(datasets)[1]
        c == _extract_cosines(first_dataset.ImageOrientationPatient)
        row_cosine == c[1]
        column_cosine == c[2]
        slice_cosine == c[3]
        row_spacing == Q(first_dataset.PixelSpacing[1])
        column_spacing == Q(first_dataset.PixelSpacing[2])
        slice_spacing == _slice_spacing(datasets)
        t0 == set_column(identity(4), 1, scale_vector(row_cosine, column_spacing))
        t1 == set_column(t0, 2, scale_vector(column_cosine, row_spacing))
        t2 == set_column(t1, 3, scale_vector(slice_cosine, slice_spacing))
        transform == set_column(t2, 4, q_vector(first_dataset.ImagePositionPatient))
        r0 == set_column(identity(3), 1, q_vector(row_cosine))
        r1 == set_column(r0, 2, q_vector(column_cosine))
        r2 == set_column(r1, 3, q_vector(slice_cosine))
        s0 == set_entry(identity(3), 1, 1, column_spacing)
        s1 == set_entry(s0, 2, 2, row_spacing)
    IN  [transform |-> transform,
         rotation |-> transpose(r2),
         scaling |-> set_entry(s1, 3, 3, slice_spacing)]

\* an exception leaves combine_slices: nothing is returned
raise(exc, warnings) == [status |-> exc, warnings |-> warnings]

\* combine_slices(slice_datasets): the four returned values, or the exception
combine_slices(datasets) ==
    IF datasets = <<>> THEN raise("EmptyInput", {})
    ELSE LET v == _validate_slices_form_uniform_grid(datasets)
         IN  IF v.status # "ok" THEN raise(v.status, v.warnings)
             ELSE IF ~hasattr(datasets[1], "Rows") \/ ~hasattr(datasets[1], "Columns")
                 THEN raise("AttributeError", v.warnings)
             ELSE IF sort_raises(_slice_positions(datasets), datasets)
                 THEN raise("TypeError", v.warnings)
             ELSE IF \E i \in 1..Len(datasets) : ~hasattr(datasets[i], "pixel_array")
                 THEN raise("AttributeError", v.warnings)
             ELSE IF ~hasattr(datasets[1], "PixelSpacing")
                 THEN raise("AttributeError", v.warnings)
             ELSE LET m == _ijk_to_patient_xyz_transform_matrix(datasets)
                  IN  [status |-> "ok", warnings |-> v.warnings,
                       voxels |-> _merge_slice_pixel_arrays(datasets),
                       transform |-> m.transform,
                       rotation |-> m.rotation,
                       scaling |-> m.scaling]

\* pixel_array.dtype as pydicom derives it from the pixel attributes
pixel_dtype(PixelRepresentation, BitsAllocated) ==
    IF PixelRepresentation = 0
        THEN (IF BitsAllocated = 8 THEN "uint8" ELSE "uint16")
    ELSE (IF BitsAllocated = 8 THEN "int8" ELSE "int16")

\* pixel_array of Rows x Columns; the pixel at row r, column c (from 1) holds
\* seed + 2*(r-1)*Columns + 2*(c-1), so that no two pixels of a slice agree
pixel_array_of(Rows, Columns, seed) ==
    [r \in 1..Rows |-> [c \in 1..Columns |-> seed + 2 * (r - 1) * Columns + 2 * (c - 1)]]

\* a slice of a CT series: 1 row, 2 columns, spacing 3 between rows and 5
\* between columns
slice_dataset(orientation, representation, z, seed, slope, intercept) ==
    [Modality |-> "CT", SOPClassUID |-> "sop1", SeriesInstanceUID |-> "s1",
     Rows |-> 1, Columns |-> 2,
     ImageOrientationPatient |-> orientation,
     PixelSpacing |-> <<3, 5>>,
     PixelRepresentation |-> representation,
     BitsAllocated |-> 16, BitsStored |-> 12, HighBit |-> 11,
     ImagePositionPatient |-> <<-z, 0, z>>,
     pixel_array |-> pixel_array_of(1, 2, seed),
     dtype |-> pixel_dtype(representation, 16),
     RescaleSlope |-> slope, RescaleIntercept |-> intercept]

\* orientation and pixel representation of a series: axial (normal +z),
\* sagittal (normal +x), and cosines that are not orthogonal
SeriesKinds ==
    { [o |-> <<1, 0, 0, 0, 1, 0>>, rep |-> 1],
      [o |-> <<0, 1, 0, 0, 0, 1>>, rep |-> 0],
      [o |-> <<1, 0, 0, 1, 0, 0>>, rep |-> 1] }

\* what distinguishes the slices of a series: position, pixels, rescaling
SlicePositions == {0, 10, 20, 21}
SliceContents ==
    { [seed |-> 1, slope |-> <<>>, intercept |-> <<>>],
      [seed |-> 2, slope |-> <<>>, intercept |-> <<>>],
      [seed |-> 1, slope |-> <<2>>, intercept |-> <<>>],
      [seed |-> 2, slope |-> <<>>, intercept |-> <<7>>] }

\* the slices a series of the given kind may hold
SlicesOfKind(kind) ==
    {slice_dataset(kind.o, kind.rep, z, c.seed, c.slope, c.intercept)
        : z \in SlicePositions, c \in SliceContents}

InitCombine ==
    /\ IdleDicom /\ IdleROI /\ IdleSpatial /\ IdlePipeline
    /\ \E n \in 0..MaxSlices : \E kind \in SeriesKinds :
          slice_datasets \in [1..n -> SlicesOfKind(kind)]
    /\ validation = "pending" /\ warned = FALSE
    /\ IdleCombine

\* voxels, transform, rotation, scaling = combine_slices(slice_datasets)
CombineSlices ==
    /\ combined.status = "pending"
    /\ combined' = combine_slices(slice_datasets)
    /\ UNCHANGED <<sliceVars, cosines, orientation_check, dicomVars, roiVars, spatialVars, pipelineVars>>

NextCombine == CombineSlices

SpecCombine == InitCombine /\ [][NextCombine]_vars

\* the other value an attribute of the grid may take in a slice
OtherValue(name) ==
    CASE name = "Modality" -> "MR"
      [] name = "SOPClassUID" -> "sop2"
      [] name = "SeriesInstanceUID" -> "s2"
      [] name = "Rows" -> 2
      [] name = "Columns" -> 1
      [] name = "ImageOrientationPatient" -> <<0, 1, 0, 0, 0, 1>>
      [] name = "PixelSpacing" -> <<4, 5>>
      [] name = "PixelRepresentation" -> 0
      [] name = "BitsAllocated" -> 8
      [] name = "BitsStored" -> 11
      [] name = "HighBit" -> 10

\* the dataset with one attribute set to v; pydicom makes pixel_array from
\* Rows, Columns, BitsAllocated and PixelRepresentation and has none to give
\* when one of them is missing
with_attribute(dataset, name, v) ==
    LET e == [dataset EXCEPT ![name] = v]
        decodable == \A a \in {"Rows", "Columns", "BitsAllocated", "PixelRepresentation"} :
                        hasattr(e, a)
    IN  [e EXCEPT
            !.pixel_array = IF decodable THEN pixel_array_of(e.Rows, e.Columns, 1) ELSE <<>>,
            !.dtype = pixel_dtype(e.PixelRepresentation, e.BitsAllocated)]

\* how a slice may differ from the others of its series: not at all, or in
\* one attribute of the grid, which is changed or missing
GridVariants ==
    {[property |-> Absent, missing |-> FALSE]}
        \cup [property : Range(invariant_properties), missing : BOOLEAN]

\* the i-th slice of an axial series with step 10, in the given variant
grid_slice(i, variant) ==
    LET base == slice_dataset(<<1, 0, 0, 0, 1, 0>>, 1, 10 * (i - 1), 1, <<>>, <<>>)
    IN  IF variant.property = Absent THEN base
        ELSE with_attribute(base, variant.property,
                IF variant.missing THEN NoAttr(variant.property)
                ELSE OtherValue(variant.property))

InitGrid ==
    /\ IdleDicom /\ IdleROI /\ IdleSpatial /\ IdlePipeline
    /\ \E n \in 1..MaxSlices : \E v \in [1..n -> GridVariants] :
          slice_datasets = [i \in 1..n |-> grid_slice(i, v[i])]
    /\ validation = "pending" /\ warned = FALSE
    /\ IdleCombine

SpecGrid == InitGrid /\ [][NextCombine]_vars

\* distances from 0 (of the dot product) and from 1 (of a magnitude), in
\* units of 1e-8: none, at and just beyond 1e-8, at and just beyond 1e-4
Deviations == {0, 1, 2, 10000, 10001}

\* the quantities _validate_image_orientation computes for some orientation
CosineMeasures ==
    [dot : {d * sign : d \in Deviations, sign \in {-1, 1}},
     row_norm : {One + d * sign : d \in Deviations, sign \in {-1, 1}},
     column_norm : {One + d * sign : d \in Deviations, sign \in {-1, 1}}]

InitOrientation ==
    /\ IdleDicom /\ IdleROI /\ IdleSlices /\ IdleSpatial /\ IdlePipeline
    /\ combined = [status |-> "pending"]
    /\ cosines \in CosineMeasures
    /\ orientation_check = [status |-> "pending", warnings |-> {}]

\* _validate_image_orientation(image_orientation)
ValidateImageOrientation ==
    /\ orientation_check.status = "pending"
    /\ orientation_check' = _validate_image_orientation(cosines)
    /\ UNCHANGED <<cosines, combined, sliceVars, dicomVars, roiVars, spatialVars, pipelineVars>>

NextOrientation == ValidateImageOrientation

SpecOrientation == InitOrientation /\ [][NextOrientation]_vars

(***************************************************************************)
(* Claims about combine_slices                                             *)
(***************************************************************************)
Done == combined.status # "pending"
Accepted == combined.status = "ok"
NumSlices == Len(slice_datasets)

\* the projected position of input slice i, and its rank among the slices
ProjectedAt(i) ==
    dot(_extract_cosines(slice_datasets[i].ImageOrientationPatient)[3],
        slice_datasets[i].ImagePositionPatient)
Rank(i) == Cardinality({j \in 1..NumSlices : ProjectedAt(j) < ProjectedAt(i)})
DistinctPositions ==
    \A i, j \in 1..NumSlices : i # j => ProjectedAt(i) # ProjectedAt(j)

\* an input slice at the k-th place (from 0) of the ascending order; slices
\* that share a position share the places after those of the smaller ones
SliceOfRank(k) ==
    CHOOSE i \in 1..NumSlices :
        /\ Rank(i) <= k
        /\ k < Rank(i) + Cardinality({j \in 1..NumSlices : ProjectedAt(j) = ProjectedAt(i)})

Orthonormal(o) ==
    /\ dot(SubSeq(o, 1, 3), SubSeq(o, 4, 6)) = 0
    /\ dot(SubSeq(o, 1, 3), SubSeq(o, 1, 3)) = 1
    /\ dot(SubSeq(o, 4, 6), SubSeq(o, 4, 6)) = 1

\* every pair of slices agrees on everything but the position
OtherwiseIdentical ==
    \A i, j \in 1..NumSlices :
        [slice_datasets[i] EXCEPT !.ImagePositionPatient = <<0, 0, 0>>]
            = [slice_datasets[j] EXCEPT !.ImagePositionPatient = <<0, 0, 0>>]

\* three slices, normal (0,0,1), at z = 0, 10 and 21
IsScenario_0_10_21 ==
    /\ NumSlices = 3
    /\ OtherwiseIdentical
    /\ slice_datasets[1].ImageOrientationPatient = <<1, 0, 0, 0, 1, 0>>
    /\ {slice_datasets[i].ImagePositionPatient[3] : i \in 1..3} = {0, 10, 21}

\* C11 (as claimed): the series of three slices with normal (0,0,1) at
\* z = 0, 10, 21 is rejected with the missing-slices error, nothing returned.
C11_ScenarioRejected ==
    (Done /\ IsScenario_0_10_21) => combined.status = "MissingSlices"

\* C11 (amended): the series at z = 0, 10, 21 deviates by exactly 10% and is
\* accepted: combine_slices warns about the non-uniform spacing and returns
\* a volume of three slices whose slice spacing is the mean step 10.5.
C11_ScenarioAcceptedWithWarning ==
    (Done /\ IsScenario_0_10_21) =>
        /\ combined.status = "ok"
        /\ "spacing" \in combined.warnings
        /\ combined.voxels.shape[3] = 3
        /\ q_eq(combined.scaling[3][3], [num |-> 21, den |-> 2])

C11_Witness == Done /\ IsScenario_0_10_21 /\ combined.status = "ok"

\* the series is valid and uniform: orthonormal cosines, one step D > 0
\* between consecutive projected positions (any D for a single slice)
UniformStep(D) ==
    /\ NumSlices >= 1
    /\ Orthonormal(slice_datasets[1].ImageOrientationPatient)
    /\ D > 0
    /\ DistinctPositions
    /\ \A i, j \in 1..NumSlices :
          Rank(j) = Rank(i) + 1 => ProjectedAt(j) - ProjectedAt(i) = D

\* C12: a valid uniform series of N >= 1 slices with step D is combined into
\* a volume of shape (Columns, Rows, N) with slice spacing D (0 when N = 1).
C12_UniformSeriesCombines ==
    \A D \in 1..21 :
        (Done /\ UniformStep(D)) =>
            /\ combined.status = "ok"
            /\ combined.voxels.shape = <<slice_datasets[1].Columns, slice_datasets[1].Rows, NumSlices>>
            /\ q_eq(combined.scaling[3][3], IF NumSlices = 1 THEN Q(0) ELSE Q(D))

\* the input list rearranged by the permutation p of its positions
Permuted(p) == [i \in 1..NumSlices |-> slice_datasets[p[i]]]

\* the four values combine_slices returns
Returned4(r) == <<r.voxels, r.transform, r.rotation, r.scaling>>

\* the value the volume must hold at (c, r) of the plane made from input slice i
AnyRescaled == \E i \in 1..NumSlices : _requires_rescaling(slice_datasets[i])
RawPixel(i, c, r) == slice_datasets[i].pixel_array[r + 1][c + 1]
OwnSlope(i) ==
    IF slice_datasets[i].RescaleSlope = <<>> THEN 1 ELSE slice_datasets[i].RescaleSlope[1]
OwnIntercept(i) ==
    IF slice_datasets[i].RescaleIntercept = <<>> THEN 0
    ELSE slice_datasets[i].RescaleIntercept[1]
PlaneValue(i, c, r) ==
    IF AnyRescaled THEN RawPixel(i, c, r) * OwnSlope(i) + OwnIntercept(i)
    ELSE RawPixel(i, c, r)

AllVoxels ==
    (0..(slice_datasets[1].Columns - 1)) \X (0..(slice_datasets[1].Rows - 1))
        \X (0..(NumSlices - 1))

\* C13: for an accepted series with pairwise distinct projected positions,
\* every permutation of the input list gives the same volume, transform,
\* rotation and scaling, and slice k of the volume is the input slice with
\* the k-th smallest projected position.
C13_OrderIndependent ==
    (Accepted /\ DistinctPositions) =>
        /\ \A p \in Permutations(1..NumSlices) :
              /\ combine_slices(Permuted(p)).status = "ok"
              /\ Returned4(combine_slices(Permuted(p))) = Returned4(combined)
        /\ \A x \in AllVoxels :
              combined.voxels.data[x] = PlaneValue(SliceOfRank(x[3]), x[1], x[2])
        /\ \A j \in 1..3 :
              combined.transform[j][4] = Q(slice_datasets[SliceOfRank(0)].ImagePositionPatient[j])

\* three slices given in an order that is not the ascending one
C13_Witness ==
    /\ Accepted /\ DistinctPositions /\ NumSlices = 3
    /\ Rank(1) = 2 /\ Rank(2) = 0
    /\ slice_datasets[1].pixel_array # slice_datasets[2].pixel_array

\* C14: when some slice carries a rescale slope or intercept the volume is
\* float32 and every voxel of slice k is raw*slope_k + intercept_k with the
\* slope (default 1) and intercept (default 0) of that very slice.
C14_PerSliceRescale ==
    (Accepted /\ AnyRescaled) =>
        /\ combined.voxels.dtype = "float32"
        /\ DOMAIN combined.voxels.data = AllVoxels
        /\ \A x \in AllVoxels :
              LET i == SliceOfRank(x[3])
              IN  combined.voxels.data[x] = RawPixel(i, x[1], x[2]) * OwnSlope(i) + OwnIntercept(i)

\* a slope-only slice, an intercept-only slice and a slice without either
C14_Witness ==
    /\ Accepted /\ NumSlices = 3 /\ DistinctPositions
    /\ \E i, j, k \in 1..3 :
          /\ slice_datasets[i].RescaleSlope # <<>> /\ slice_datasets[i].RescaleIntercept = <<>>
          /\ slice_datasets[j].RescaleSlope = <<>> /\ slice_datasets[j].RescaleIntercept # <<>>
          /\ ~_requires_rescaling(slice_datasets[k])
          /\ Rank(i) = 1

\* C15: when no slice carries a rescale slope or intercept the volume has the
\* pixel type of the source, shape (Columns, Rows, N), voxel (c, r, k) is
\* pixel (row r, column c) of the k-th slice in ascending order, and every
\* voxel is written exactly once.
C15_PlainCopy ==
    (Accepted /\ ~AnyRescaled) =>
        /\ combined.voxels.dtype = slice_datasets[1].dtype
        /\ combined.voxels.shape = <<slice_datasets[1].Columns, slice_datasets[1].Rows, NumSlices>>
        /\ DOMAIN combined.voxels.data = AllVoxels
        /\ \A x \in AllVoxels :
              /\ combined.voxels.data[x] = RawPixel(SliceOfRank(x[3]), x[1], x[2])
              /\ combined.voxels.writes[x] = 1

C15_Witness ==
    /\ Accepted /\ DistinctPositions /\ ~AnyRescaled /\ NumSlices = 3
    /\ slice_datasets[1].dtype = "uint16"
    /\ Rank(1) = 1 /\ Rank(2) = 2
    /\ slice_datasets[2].pixel_array # slice_datasets[3].pixel_array

\* the product of two 3x3 matrices of numbers
mat_mul(a, b) ==
    [i \in 1..3 |-> [j \in 1..3 |->
        q_add(q_add(q_mul(a[i][1], b[1][j]), q_mul(a[i][2], b[2][j])), q_mul(a[i][3], b[3][j]))]]
mat_eq(a, b) == \A i, j \in 1..3 : q_eq(a[i][j], b[i][j])
Block3(m) == [i \in 1..3 |-> [j \in 1..3 |-> m[i][j]]]

\* the cosines of the series: row cosine, column cosine, slice normal
Cosines == _extract_cosines(slice_datasets[1].ImageOrientationPatient)

\* the mean of the N-1 consecutive steps: (largest - smallest)/(N-1)
MeanStep ==
    IF NumSlices = 1 THEN Q(0)
    ELSE [num |-> ProjectedAt(SliceOfRank(NumSlices - 1)) - ProjectedAt(SliceOfRank(0)),
          den |-> NumSlices - 1]

ScalingAndTranslationAsClaimed ==
    /\ \A i, j \in 1..3 : i # j => q_eq(combined.scaling[i][j], Q(0))
    /\ q_eq(combined.scaling[1][1], Q(slice_datasets[1].PixelSpacing[2]))
    /\ q_eq(combined.scaling[2][2], Q(slice_datasets[1].PixelSpacing[1]))
    /\ q_eq(combined.scaling[3][3], MeanStep)
    /\ \A i \in 1..3 :
          q_eq(combined.transform[i][4],
               Q(slice_datasets[SliceOfRank(0)].ImagePositionPatient[i]))

\* C18 (as claimed): the rotation has the row cosine, the column cosine and
\* the slice normal as its columns 0, 1, 2; the scaling is diagonal (column
\* spacing, row spacing, slice spacing); the translation is the position of
\* the slice of smallest projection; transform[:3,:3] = rotation x scaling.
C18_CosinesAreColumns ==
    Accepted =>
        /\ \A i, j \in 1..3 : q_eq(combined.rotation[i][j], Q(Cosines[j][i]))
        /\ ScalingAndTranslationAsClaimed
        /\ mat_eq(Block3(combined.transform), mat_mul(combined.rotation, combined.scaling))

\* C18 (amended): the rotation has the three cosines as its rows 0, 1, 2,
\* and transform[:3,:3] = transpose(rotation) x scaling; scaling and
\* translation as claimed.
C18_CosinesAreRows ==
    Accepted =>
        /\ \A i, j \in 1..3 : q_eq(combined.rotation[i][j], Q(Cosines[i][j]))
        /\ ScalingAndTranslationAsClaimed
        /\ mat_eq(Block3(combined.transform),
                  mat_mul([i \in 1..3 |-> [j \in 1..3 |-> combined.rotation[j][i]]],
                          combined.scaling))

\* an accepted sagittal series: its matrix of cosines is not symmetric
C18_Witness ==
    /\ Accepted /\ NumSlices = 3
    /\ slice_datasets[1].ImageOrientationPatient = <<0, 1, 0, 0, 0, 1>>
    /\ combined.rotation[1] = <<Q(0), Q(1), Q(0)>>

\* the attributes on which the slices of a series must agree
GridAttributes ==
    {"Modality", "SOPClassUID", "SeriesInstanceUID", "Rows", "Columns",
     "ImageOrientationPatient", "PixelSpacing", "PixelRepresentation",
     "BitsAllocated", "BitsStored", "HighBit"}

SlicesDiffer ==
    \E i, j \in 1..NumSlices : \E a \in GridAttributes :
        slice_datasets[i][a] # slice_datasets[j][a]

\* the input list with slice j put first, in exchange for the first
WithFirst(j) ==
    [i \in 1..NumSlices |->
        IF i = 1 THEN slice_datasets[j] ELSE IF i = j THEN slice_datasets[1]
        ELSE slice_datasets[i]]

\* C16: combine_slices fails with the grid-inconsistency error exactly when
\* two slices differ in one of the eleven grid attributes, and does so
\* whichever slice comes first in the list.
C16_GridInconsistencyIffDiffer ==
    Done =>
        /\ combined.status = "GridInconsistency" <=> SlicesDiffer
        /\ \A j \in 1..NumSlices :
              combine_slices(WithFirst(j)).status = "GridInconsistency"
                  <=> combined.status = "GridInconsistency"

\* the first two slices agree and the third lacks an attribute
C16_Witness ==
    /\ combined.status = "GridInconsistency" /\ NumSlices = 3
    /\ slice_datasets[1] = [slice_datasets[2] EXCEPT
                               !.ImagePositionPatient = slice_datasets[1].ImagePositionPatient]
    /\ slice_datasets[3].HighBit = None

\* the three quantities of the orientation check as distances, units of 1e-8
Distance ==
    [dot |-> Abs(cosines.dot),
     row_norm |-> Abs(cosines.row_norm - 100000000),
     column_norm |-> Abs(cosines.column_norm - 100000000)]

\* C17: the orientation check fails if |dot| > 1e-4 or a magnitude differs
\* from 1 by more than 1e-4; otherwise it does not fail and warns exactly
\* about the quantities that exceed 1e-8.
C17_OrientationThresholds ==
    orientation_check.status # "pending" =>
        IF \E x \in DOMAIN Distance : Distance[x] > 10000
            THEN orientation_check.status # "ok"
        ELSE /\ orientation_check.status = "ok"
             /\ orientation_check.warnings = {x \in DOMAIN Distance : Distance[x] > 1}

\* passes at exactly 1e-4 off, warning about that quantity and one other
C17_Witness ==
    /\ orientation_check.status = "ok"
    /\ Distance.row_norm = 10000 /\ Distance.dot = 2 /\ Distance.column_norm = 1
    /\ orientation_check.warnings = {"row_norm", "dot"}

(***************************************************************************)
(* The spatial reference of a NIfTI scan: the two builders and the         *)
(* conversion between conventions                                          *)
(***************************************************************************)
\* x/2 for the even quantities of the model
half(x) == x \div 2

\* the grid size along an axis: X runs along the second dimension of
\* ImageSize, Y along the first, Z along the third
AxisSize(ImageSize, axis) ==
    IF axis = "X" THEN ImageSize[2] ELSE IF axis = "Y" THEN ImageSize[1] ELSE ImageSize[3]

\* imref3d(size_image, pixelExtentInWorldX, pixelExtentInWorldY, pixelExtentInWorldZ):
\* per axis the pixel extent, the image extent (extent x size), the world
\* limits, which start half a pixel after 0 and span the image extent, and
\* the intrinsic limits (0.5, size + 0.5), held doubled
imref3d(size_image, px, py, pz) ==
    LET nx == AxisSize(size_image, "X")
        ny == AxisSize(size_image, "Y")
        nz == AxisSize(size_image, "Z")
    IN  [ImageSize |-> size_image,
         PixelExtentInWorldX |-> px, PixelExtentInWorldY |-> py, PixelExtentInWorldZ |-> pz,
         ImageExtentInWorldX |-> px * nx, ImageExtentInWorldY |-> py * ny,
         ImageExtentInWorldZ |-> pz * nz,
         XWorldLimits |-> <<half(px), half(px) + px * nx>>,
         YWorldLimits |-> <<half(py), half(py) + py * ny>>,
         ZWorldLimits |-> <<half(pz), half(pz) + pz * nz>>,
         XIntrinsicLimits |-> <<1, 2 * nx + 1>>,
         YIntrinsicLimits |-> <<1, 2 * ny + 1>>,
         ZIntrinsicLimits |-> <<1, 2 * nz + 1>>]

\* (np.array(limits) - (limits[0] - target)).tolist()
shift_limits(limits, target) ==
    [i \in 1..2 |-> limits[i] - (limits[1] - target)]

\* DataManager.__associate_spatialRef: affine is nifti.affine (rows and
\* columns counted from 1), size_image is np.shape(MEDimg.scan.volume.data)
associate_spatialRef(affine, size_image) ==
    LET pixel_x == Abs(affine[1][1])
        pixel_y == Abs(affine[2][2])
        slices == Abs(affine[3][3])
        min_x_grid == affine[1][4] * (-1)
        min_y_grid == affine[2][4] * (-1)
        min_z_grid == affine[3][4] * 1
        ref == imref3d(size_image, Abs(pixel_x), Abs(pixel_y), Abs(slices))
    IN  [ref EXCEPT
            !.XWorldLimits = shift_limits(ref.XWorldLimits, min_x_grid - half(pixel_x)),
            !.YWorldLimits = shift_limits(ref.YWorldLimits, min_y_grid - half(pixel_y)),
            !.ZWorldLimits = shift_limits(ref.ZWorldLimits, min_z_grid - half(slices))]

\* volume.spatialRef_from_NIFTI: size_image is np.shape(self.data)
spatialRef_from_NIFTI(affine, size_image) ==
    LET pixelX == affine[1][1]
        pixelY == affine[2][2]
        sliceS == affine[3][3]
        min_Xgrid == affine[1][4]
        min_Ygrid == affine[2][4]
        min_Zgrid == affine[3][4]
        ref == imref3d(size_image, Abs(pixelX), Abs(pixelY), Abs(sliceS))
    IN  [ref EXCEPT
            !.XWorldLimits = shift_limits(ref.XWorldLimits, min_Xgrid - half(pixelX)),
            !.YWorldLimits = shift_limits(ref.YWorldLimits, min_Ygrid - half(pixelY)),
            !.ZWorldLimits = shift_limits(ref.ZWorldLimits, min_Zgrid - half(sliceS))]

\* the four swaps written without the temporary: X takes Y and Y keeps its own
convert_spatialRef_no_temp(ref) ==
    [ref EXCEPT
        !.ImageExtentInWorldX = ref.ImageExtentInWorldY,
        !.PixelExtentInWorldX = ref.PixelExtentInWorldY,
        !.XIntrinsicLimits = ref.YIntrinsicLimits,
        !.XWorldLimits = ref.YWorldLimits]

\* volume.convert_spatialRef: four swaps between X and Y
convert_spatialRef(ref) ==
    [ref EXCEPT
        !.ImageExtentInWorldX = ref.ImageExtentInWorldY,
        !.ImageExtentInWorldY = ref.ImageExtentInWorldX,
        !.PixelExtentInWorldX = ref.PixelExtentInWorldY,
        !.PixelExtentInWorldY = ref.PixelExtentInWorldX,
        !.XIntrinsicLimits = ref.YIntrinsicLimits,
        !.YIntrinsicLimits = ref.XIntrinsicLimits,
        !.XWorldLimits = ref.YWorldLimits,
        !.YWorldLimits = ref.XWorldLimits]

\* nifti.affine with the given diagonal and translation column
Affine(diag, translation) ==
    [i \in 1..4 |-> [j \in 1..4 |->
        IF i = 4 THEN (IF j = 4 THEN 1 ELSE 0)
        ELSE IF j = i THEN diag[i]
        ELSE IF j = 4 THEN translation[i]
        ELSE 0]]

\* voxel sizes of 2 or 4, stored with either sign; origins on either side of 0
Affines ==
    {Affine(<<dx, dy, dz>>, <<tx, ty, tz>>) :
        dx \in {-2, 2, 4}, dy \in {-2, 2, 4}, dz \in {-2, 2},
        tx \in {-3, 0, 5}, ty \in {-3, 0, 5}, tz \in {0, 5}}

\* np.shape of the volume data
VolumeShapes == {<<2, 3, 1>>, <<2, 2, 2>>, <<3, 2, 2>>}

InitSpatial ==
    /\ IdleDicom /\ IdleROI /\ IdleSlices /\ IdleCombine /\ IdlePipeline
    /\ nifti \in [loaded : {TRUE}, affine : Affines, shape : VolumeShapes]
    /\ spatialRef = [builder |-> "None"]

\* MEDimg = self.__associate_spatialRef(file, MEDimg)
AssociateSpatialRef ==
    /\ spatialRef' = [builder |-> "associate_spatialRef", op |-> "build", converted |-> FALSE,
                      ref |-> associate_spatialRef(nifti.affine, nifti.shape)]
    /\ UNCHANGED <<nifti, dicomVars, roiVars, sliceVars, combineVars, pipelineVars>>

\* scan.volume.spatialRef_from_NIFTI(path)
SpatialRefFromNIFTI ==
    /\ spatialRef' = [builder |-> "spatialRef_from_NIFTI", op |-> "build", converted |-> FALSE,
                      ref |-> spatialRef_from_NIFTI(nifti.affine, nifti.shape)]
    /\ UNCHANGED <<nifti, dicomVars, roiVars, sliceVars, combineVars, pipelineVars>>

\* scan.volume.convert_spatialRef(), once a spatial reference is there
\* (on None the first attribute access raises and nothing changes)
ConvertSpatialRef ==
    /\ spatialRef.builder # "None"
    /\ spatialRef' = [spatialRef EXCEPT !.op = "convert",
                                        !.converted = ~spatialRef.converted,
                                        !.ref = convert_spatialRef(spatialRef.ref)]
    /\ UNCHANGED <<nifti, dicomVars, roiVars, sliceVars, combineVars, pipelineVars>>

NextSpatial == AssociateSpatialRef \/ SpatialRefFromNIFTI \/ ConvertSpatialRef

SpecSpatial == InitSpatial /\ [][NextSpatial]_vars

(***************************************************************************)
(* Claims about the spatial reference                                      *)
(***************************************************************************)
Axes == {"X", "Y", "Z"}
AxisIndex(axis) == IF axis = "X" THEN 1 ELSE IF axis = "Y" THEN 2 ELSE 3
WorldLimitsOf(ref, axis) ==
    IF axis = "X" THEN ref.XWorldLimits
    ELSE IF axis = "Y" THEN ref.YWorldLimits ELSE ref.ZWorldLimits
IntrinsicLimitsOf(ref, axis) ==
    IF axis = "X" THEN ref.XIntrinsicLimits
    ELSE IF axis = "Y" THEN ref.YIntrinsicLimits ELSE ref.ZIntrinsicLimits
PixelExtentOf(ref, axis) ==
    IF axis = "X" THEN ref.PixelExtentInWorldX
    ELSE IF axis = "Y" THEN ref.PixelExtentInWorldY ELSE ref.PixelExtentInWorldZ

Built == spatialRef.builder # "None"

\* the limits the claim gives for an axis of the loaded affine and volume:
\* extent = |diagonal entry|, minimum corner = translation entry
ClaimedExtent(axis) ==
    LET a == nifti.affine[AxisIndex(axis)][AxisIndex(axis)]
    IN  IF a < 0 THEN -a ELSE a
ClaimedLimits(axis) ==
    LET lower == nifti.affine[AxisIndex(axis)][4] - (ClaimedExtent(axis) \div 2)
    IN  <<lower, lower + ClaimedExtent(axis) * AxisSize(nifti.shape, axis)>>

\* C19: a spatial reference built from an affine has, on each axis, pixel
\* extent |diagonal entry| and world limits [min - extent/2, min - extent/2
\* + extent*size] with min the translation entry, negative diagonal entries
\* included, and both builders give the same limits.
C19_LimitsFromAffine ==
    (Built /\ ~spatialRef.converted) =>
        /\ \A axis \in Axes :
              /\ PixelExtentOf(spatialRef.ref, axis) = ClaimedExtent(axis)
              /\ WorldLimitsOf(spatialRef.ref, axis) = ClaimedLimits(axis)
        /\ \A axis \in Axes :
              WorldLimitsOf(associate_spatialRef(nifti.affine, nifti.shape), axis)
                  = WorldLimitsOf(spatialRef_from_NIFTI(nifti.affine, nifti.shape), axis)

\* C20: convert_spatialRef leaves the spatial reference consistent, pixel
\* extent = (world_max - world_min)/size on X, Y and Z for every grid size,
\* and leaves the Z extent, Z world limits and Z intrinsic limits unchanged.
C20_ConsistentAfterConversion ==
    [][(Built /\ spatialRef'.op = "convert"
              /\ spatialRef'.converted # spatialRef.converted) =>
          /\ \A axis \in Axes :
                PixelExtentOf(spatialRef'.ref, axis) * AxisSize(spatialRef'.ref.ImageSize, axis)
                    = WorldLimitsOf(spatialRef'.ref, axis)[2] - WorldLimitsOf(spatialRef'.ref, axis)[1]
          /\ PixelExtentOf(spatialRef'.ref, "Z") = PixelExtentOf(spatialRef.ref, "Z")
          /\ WorldLimitsOf(spatialRef'.ref, "Z") = WorldLimitsOf(spatialRef.ref, "Z")
          /\ IntrinsicLimitsOf(spatialRef'.ref, "Z") = IntrinsicLimitsOf(spatialRef.ref, "Z")]_vars

(***************************************************************************)
(* Claims about the parallel lists of pass 1                               *)
(***************************************************************************)
\* C27: after every scanned file, also one whose read fails part-way,
\* cell_series_id, cell_frame_id, cell_path_images and cell_path_rs have one
\* length, and stack_path_rs, stack_series_rs and stack_frame_rs have one
\* length.
C27_ParallelListsAligned ==
    assoc_status = "scan" =>
        /\ Len(dicom.cell_frame_id) = Len(dicom.cell_series_id)
        /\ Len(dicom.cell_path_images) = Len(dicom.cell_series_id)
        /\ Len(dicom.cell_path_rs) = Len(dicom.cell_series_id)
        /\ Len(dicom.stack_series_rs) = Len(dicom.stack_path_rs)
        /\ Len(dicom.stack_frame_rs) = Len(dicom.stack_path_rs)

(***************************************************************************)
(* Claims about the independence of the four maps of the ROI store         *)
(***************************************************************************)
\* the one map of RoiMaps an update operation is to write
MapWrittenBy(op) ==
    IF op = "update_indexes" THEN 1
    ELSE IF op = "update_ROIname" THEN 2
    ELSE IF op = "update_nameSet" THEN 3 ELSE 4

UpdateOps == {"update_indexes", "update_ROIname", "update_nameSet", "update_nameSetInfo"}

\* every item of old and new but the one under key is the same
SameButKey(old, new, key) ==
    \A k \in (dict_keys(old) \cup dict_keys(new)) \ {key} :
        /\ dict_has(old, k) /\ dict_has(new, k)
        /\ dict_get(old, k) = dict_get(new, k)

\* C29: an update operation changes only the entry under its key in its own
\* map; every other entry of all four maps is unchanged, also in a store
\* constructed with initial roi_names.
C29_UpdatesAreIndependent ==
    [][ret'.op \in UpdateOps =>
          \A m \in 1..4 :
              IF m = MapWrittenBy(ret'.op)
                  THEN SameButKey(RoiMaps(roi)[m], RoiMaps(roi')[m], str(ret'.key))
                  ELSE RoiMaps(roi')[m] = RoiMaps(roi)[m]]_vars

(***************************************************************************)
(* MEDimage.scan.get_indexes_by_ROIname: the dense mask of a named ROI     *)
(***************************************************************************)
\* list(d.values()).index(x): 0-based position of the first item whose value
\* is x, None (where Python raises ValueError) when there is none
values_index(d, x) ==
    IF \E i \in 1..Len(d) : d[i].v = x
        THEN (CHOOSE i \in 1..Len(d) : d[i].v = x /\ \A j \in 1..(i - 1) : d[j].v # x) - 1
        ELSE None

\* ROIname_key = list(self.ROI.roi_names.values()).index(ROIname), then the
\* statements of get_ROI_from_indexes with ROIname_key as the key
get_indexes_by_ROIname(r, shape, ROIname) ==
    LET ROIname_key == values_index(r.roi_names, ROIname)
        op == "get_indexes_by_ROIname"
    IN  IF ROIname_key = None
            THEN [Raised(op, None, "ValueError") EXCEPT !.val = ROIname]
        ELSE LET got == get_ROI_from_indexes(r, shape, ROIname_key)
             IN  IF got.exc # "none"
                     THEN [Raised(op, ROIname_key, got.exc) EXCEPT !.val = ROIname]
                     ELSE [op |-> op, key |-> ROIname_key, exc |-> "none",
                           kind |-> "named_mask", val |-> ROIname, mask |-> got.val]

\* a query by name: the store is left as it is, and n_ops counts the
\* operations made on the store before it
GetIndexesByROIname ==
    /\ \E ROIname \in RoiNames : ret' = get_indexes_by_ROIname(roi, volume_shape, ROIname)
    /\ UNCHANGED <<roi, alias, volume_shape, n_ops, dicomVars, sliceVars, combineVars,
                   spatialVars, pipelineVars>>

NextRoiNames == UpdateIndexes \/ UpdateROIname \/ GetIndexesByROIname

SpecRoiNames == InitROI /\ [][NextRoiNames]_vars

\* the keys of the store whose ROI name is name
KeysNamed(name) ==
    {roi.roi_names[i].k : i \in {j \in 1..Len(roi.roi_names) : roi.roi_names[j].v = name}}

\* C30: when exactly one key carries the name asked for (and holds indices
\* that fit the volume), get_indexes_by_ROIname returns the mask whose
\* nonzero voxels are the indices stored under that key, whatever the keys
\* and the order in which the names were set.
C30_MaskOfTheNamedKey ==
    (/\ ret.op = "get_indexes_by_ROIname"
     /\ Cardinality(KeysNamed(ret.val)) = 1
     /\ \A k \in KeysNamed(ret.val) :
            /\ dict_has(roi.indexes, k)
            /\ dict_get(roi.indexes, k).nonzero \subseteq 0..(size(volume_shape) - 1)) =>
        /\ ret.exc = "none"
        /\ \A k \in KeysNamed(ret.val) :
              nonzero(flatten(ret.mask, volume_shape)) = dict_get(roi.indexes, k).nonzero

(***************************************************************************)
(* The coordinate conversions applied repeatedly: volume.convert_to_LPS,   *)
(* ROI.convert_to_LPS and volume.convert_spatialRef                        *)
(***************************************************************************)
MaxFlips == 2

\* nib.load(file).get_fdata(): every voxel holds a value of its own, or the
\* array is a mask with one voxel set
VolumeArrays(shape) ==
    {[c \in Coords(shape) |-> ravel_index(c, shape) + 1],
     [c \in Coords(shape) |-> IF ravel_index(c, shape) = 0 THEN 1 ELSE 0]}

InitConversion ==
    /\ IdleDicom /\ IdleROI /\ IdleSlices /\ IdleCombine
    /\ nifti \in [loaded : {TRUE}, affine : Affines, shape : VolumeShapes]
    /\ spatialRef = [builder |-> "None"]
    /\ manager = [pc |-> "idle"]
    /\ assembly = [pc |-> "idle"]
    /\ \E data \in VolumeArrays(nifti.shape) :
          lps = [loaded |-> TRUE, loaded_data |-> data,
                 data |-> data, n_volume |-> 0,
                 roi_data |-> data, n_roi |-> 0]

\* MEDimg.scan.volume.convert_to_LPS(): self.data is replaced by its flip
VolumeConvertToLPS ==
    /\ lps.loaded
    /\ lps.n_volume < MaxFlips
    /\ lps' = [lps EXCEPT !.data = convert_to_LPS(lps.data, nifti.shape),
                          !.n_volume = @ + 1]
    /\ UNCHANGED <<manager, assembly, dicomVars, roiVars, sliceVars, combineVars, spatialVars>>

\* roi_data = MEDimg.scan.ROI.convert_to_LPS(data=roi_data)
RoiConvertToLPS ==
    /\ lps.loaded
    /\ lps.n_roi < MaxFlips
    /\ lps' = [lps EXCEPT !.roi_data = convert_to_LPS(lps.roi_data, nifti.shape),
                          !.n_roi = @ + 1]
    /\ UNCHANGED <<manager, assembly, dicomVars, roiVars, sliceVars, combineVars, spatialVars>>

NextConversion == NextSpatial \/ VolumeConvertToLPS \/ RoiConvertToLPS

SpecConversion == InitConversion /\ [][NextConversion]_vars

\* the spatial reference as its builder made it from the loaded image
AsBuilt ==
    IF spatialRef.builder = "associate_spatialRef"
        THEN associate_spatialRef(nifti.affine, nifti.shape)
        ELSE spatialRef_from_NIFTI(nifti.affine, nifti.shape)

\* C21: an even number of applications of volume.convert_to_LPS, of
\* ROI.convert_to_LPS and of convert_spatialRef gives back the original array,
\* voxel for voxel, and the original value of every field of the spatial
\* reference.
C21_ConversionsAreSelfInverse ==
    /\ lps.n_volume % 2 = 0 => lps.data = lps.loaded_data
    /\ lps.n_roi % 2 = 0 => lps.roi_data = lps.loaded_data
    /\ (Built /\ ~spatialRef.converted) => spatialRef.ref = AsBuilt

\* each conversion applied twice to data and a grid that one application changes
C21_Witness ==
    /\ lps.n_volume = 2 /\ lps.n_roi = 2
    /\ lps.loaded_data # convert_to_LPS(lps.loaded_data, nifti.shape)
    /\ Built /\ spatialRef.op = "convert" /\ ~spatialRef.converted
    /\ spatialRef.ref.XWorldLimits # spatialRef.ref.YWorldLimits
    /\ spatialRef.ref.XIntrinsicLimits # spatialRef.ref.YIntrinsicLimits

(***************************************************************************)
(* combine_slices taken statement by statement: validation, order          *)
(* resolution, allocation, one voxel plane per iteration, transform        *)
(***************************************************************************)
\* the slices a series under assembly may hold: plain or with an intercept
AssemblySlices(kind) ==
    {slice_dataset(kind.o, kind.rep, z, c.seed, c.slope, c.intercept)
        : z \in SlicePositions,
          c \in {[seed |-> 1, slope |-> <<>>, intercept |-> <<>>],
                 [seed |-> 2, slope |-> <<>>, intercept |-> <<7>>]}}

\* nothing allocated yet
NoVoxels == np_empty(0, 0, 0, "none")
NoResult == [status |-> "pending"]

InitAssembly ==
    /\ IdleDicom /\ IdleROI /\ IdleSpatial /\ IdleCombine
    /\ manager = [pc |-> "idle"] /\ lps = [loaded |-> FALSE]
    /\ \E n \in 0..MaxSlices : \E kind \in SeriesKinds :
          slice_datasets \in [1..n -> AssemblySlices(kind)]
    /\ validation = "pending" /\ warned = FALSE
    /\ assembly = [pc |-> "start", input |-> slice_datasets, validation |-> "pending",
                   resolved |-> FALSE, order |-> <<>>, rescale |-> FALSE,
                   voxels |-> NoVoxels, k |-> 0, exc |-> "none", result |-> NoResult]

\* an exception leaves combine_slices from the statement being executed
assembly_raise(a, exc) == [a EXCEPT !.pc = "raised", !.exc = exc]

\* lines 63-66: the empty-input test and _validate_slices_form_uniform_grid
ValidateSlices ==
    /\ assembly.pc = "start"
    /\ assembly' =
        IF slice_datasets = <<>>
            THEN [assembly_raise(assembly, "EmptyInput") EXCEPT !.validation = "EmptyInput"]
        ELSE LET v == _validate_slices_form_uniform_grid(slice_datasets)
             IN  IF v.status = "ok"
                     THEN [assembly EXCEPT !.pc = "validated", !.validation = "ok"]
                     ELSE [assembly_raise(assembly, v.status) EXCEPT !.validation = v.status]
    /\ UNCHANGED <<manager, lps, dicomVars, roiVars, sliceVars, combineVars, spatialVars>>

\* lines 76-81: Rows, Columns and sorted_slice_datasets = _sort_by_slice_spacing(...)
ResolveOrder ==
    /\ assembly.pc = "validated"
    /\ assembly' =
        IF ~hasattr(slice_datasets[1], "Rows") \/ ~hasattr(slice_datasets[1], "Columns")
            THEN assembly_raise(assembly, "AttributeError")
        ELSE IF sort_raises(_slice_positions(slice_datasets), slice_datasets)
            THEN assembly_raise(assembly, "TypeError")
        ELSE [assembly EXCEPT !.pc = "sorted", !.resolved = TRUE,
                              !.order = _sort_by_slice_spacing(slice_datasets)]
    /\ UNCHANGED <<manager, lps, dicomVars, roiVars, sliceVars, combineVars, spatialVars>>

\* lines 83-85 and 92-93: the rescaling test and voxels = np.empty(...)
AllocateVoxels ==
    /\ assembly.pc = "sorted"
    /\ LET first_dataset == slice_datasets[1]
           rescale == \E i \in 1..Len(assembly.order) : _requires_rescaling(assembly.order[i])
       IN  assembly' =
            IF ~rescale /\ ~hasattr(first_dataset, "pixel_array")
                THEN assembly_raise(assembly, "AttributeError")
            ELSE [assembly EXCEPT
                    !.pc = "filling", !.rescale = rescale, !.k = 0,
                    !.voxels = np_empty(first_dataset.Columns, first_dataset.Rows,
                                        Len(slice_datasets),
                                        IF rescale THEN "float32" ELSE first_dataset.dtype)]
    /\ UNCHANGED <<manager, lps, dicomVars, roiVars, sliceVars, combineVars, spatialVars>>

\* the loop ended one iteration early
enumerate_exhausted_early(k, sorted_slice_datasets) == k >= Len(sorted_slice_datasets) - 1

\* for k, dataset in enumerate(sorted_slice_datasets): no item is left
enumerate_exhausted(k, sorted_slice_datasets) == k >= Len(sorted_slice_datasets)

\* lines 86-90 and 94-95: one iteration, voxels[:, :, k] = ...
WritePlane ==
    /\ assembly.pc = "filling"
    /\ ~enumerate_exhausted(assembly.k, assembly.order)
    /\ LET dataset == assembly.order[assembly.k + 1]
       IN  assembly' =
            IF ~hasattr(dataset, "pixel_array")
                THEN assembly_raise(assembly, "AttributeError")
            ELSE [assembly EXCEPT
                    !.voxels = assign_plane(assembly.voxels, assembly.k,
                                   plane_of(dataset, assembly.order[1], assembly.rescale)),
                    !.k = @ + 1]
    /\ UNCHANGED <<manager, lps, dicomVars, roiVars, sliceVars, combineVars, spatialVars>>

\* line 97: return voxels
ReturnVoxels ==
    /\ assembly.pc = "filling"
    /\ enumerate_exhausted(assembly.k, assembly.order)
    /\ assembly' = [assembly EXCEPT !.pc = "merged"]
    /\ UNCHANGED <<manager, lps, dicomVars, roiVars, sliceVars, combineVars, spatialVars>>

\* lines 69-72: the transform, then return voxels, transform, rotation, scaling
ReturnCombined ==
    /\ assembly.pc = "merged"
    /\ assembly' =
        IF ~hasattr(slice_datasets[1], "PixelSpacing")
            THEN assembly_raise(assembly, "AttributeError")
        ELSE LET m == _ijk_to_patient_xyz_transform_matrix(slice_datasets)
             IN  [assembly EXCEPT
                    !.pc = "returned",
                    !.result = [status |-> "ok", voxels |-> assembly.voxels,
                                transform |-> m.transform, rotation |-> m.rotation,
                                scaling |-> m.scaling]]
    /\ UNCHANGED <<manager, lps, dicomVars, roiVars, sliceVars, combineVars, spatialVars>>

NextAssembly ==
    \/ ValidateSlices
    \/ ResolveOrder
    \/ AllocateVoxels
    \/ WritePlane
    \/ ReturnVoxels
    \/ ReturnCombined

SpecAssembly == InitAssembly /\ [][NextAssembly]_vars

(***************************************************************************)
(* Claims about the order of the steps of combine_slices                   *)
(***************************************************************************)
\* some voxel of the volume under assembly has been assigned
SomeVoxelWritten == \E x \in DOMAIN assembly.voxels.writes : assembly.voxels.writes[x] > 0

\* order holds every input slice once, by non-decreasing projected position
OrderResolved ==
    /\ assembly.resolved
    /\ Len(assembly.order) = Len(slice_datasets)
    /\ \A d \in Range(slice_datasets) : Count(assembly.order, d) = Count(slice_datasets, d)
    /\ \A i \in 1..(Len(assembly.order) - 1) :
          _slice_positions(assembly.order)[i] <= _slice_positions(assembly.order)[i + 1]

\* C26: no voxel is written before the validation of the whole series has
\* passed and the slice order is resolved; voxels are returned only when each
\* of the N slices has been written; a failed validation leaves no volume and
\* no transform; the input slices are never modified.
C26_StepsAreOrdered ==
    /\ SomeVoxelWritten => (assembly.validation = "ok" /\ OrderResolved)
    /\ assembly.pc \in {"merged", "returned"} =>
          /\ assembly.voxels.shape[3] = Len(slice_datasets)
          /\ \A x \in DOMAIN assembly.voxels.writes : assembly.voxels.writes[x] >= 1
    /\ assembly.pc = "returned" => assembly.result.voxels = assembly.voxels
    /\ assembly.validation \notin {"pending", "ok"} =>
          /\ assembly.pc = "raised"
          /\ assembly.voxels = NoVoxels
          /\ assembly.result = NoResult
    /\ slice_datasets = assembly.input

\* three slices given out of order were validated, ordered, written and returned
C26_Witness ==
    /\ assembly.pc = "returned"
    /\ Len(slice_datasets) = 3
    /\ assembly.order # slice_datasets
    /\ assembly.k = 3

(***************************************************************************)
(* DataManager.process_all_dicoms and process_all_niftis: the dispatch of  *)
(* the series to the ray workers and the accumulation of the instances     *)
(***************************************************************************)
MaxSeries == 3
MaxBatch == 2
MaxImages == 3
MaxCalls == 3

\* `len(self.instances)>10`
InstanceLimit == 10

\* lines 308-313: the number of jobs of the first batch
effective_n_batch(setting, n_scans) ==
    IF setting = None THEN 1
    ELSE IF n_scans < setting THEN n_scans
    ELSE setting

\* [pdsf.remote(...) for i in range(n_batch)]: the jobs are named by their series index
first_tasks(n_batch) == [i \in 1..n_batch |-> i - 1]

\* the index of the job before the one that is due
next_index_behind(n_scans, nb_job_left) == n_scans - nb_job_left - 1

\* idx = n_scans - nb_job_left
next_index(n_scans, nb_job_left) == n_scans - nb_job_left

\* a loop that makes one iteration too few
loop_iterations_short(n_scans) == n_scans - 1

\* for _ in trange(n_scans)
loop_iterations(n_scans) == n_scans

\* the MEDimage instance made from series or image id
instance_of(format, id) == [format |-> format, id |-> id]
instances_of(format, ids) == [i \in 1..Len(ids) |-> instance_of(format, ids[i])]

\* the summary loop of lines 323-345 and 371-393: one name per instance
\* (patient IDs follow the convention study-institution-id)
update_summary(m, new) ==
    [m EXCEPT !.summary = @ \o new,
              !.run_summary = @ \cup Range(new)]

\* lines 350-356: the first batch goes to self.instances when kept
keep_first_batch(m, new) ==
    IF Len(m.instances) > InstanceLimit /\ ~m.warned THEN [m EXCEPT !.warned = TRUE]
    ELSE IF m.keep_instances THEN [m EXCEPT !.instances = @ \o new]
    ELSE m

\* lines 396-401: what ray.get(ids) gives after the loop goes to self.instances
keep_remaining(m, new) ==
    IF Len(m.instances) > InstanceLimit /\ ~m.warned THEN [m EXCEPT !.warned = TRUE]
    ELSE [m EXCEPT !.instances = @ \o new]

\* a DataManager as constructed, on folders of n_series DICOM series and
\* n_images NIfTI images of which image fail_image cannot be processed
NewManager(n_batch, keep_instances, n_series, n_images, fail_image) ==
    [pc |-> "constructed", call |-> "none", exc |-> "none", calls |-> 0,
     n_batch_setting |-> n_batch, keep_instances |-> keep_instances,
     n_series |-> n_series, n_images |-> n_images, fail_image |-> fail_image,
     instances |-> <<>>, summary |-> <<>>, warned |-> FALSE,
     stack_path_images |-> <<>>, position |-> 0,
     run_summary |-> {}, run_instances |-> 0,
     n_scans |-> 0, n_batch |-> 0, ids |-> <<>>, nb_job_left |-> 0, iteration |-> 0,
     submitted |-> <<>>, completed |-> {}, empty_waits |-> 0,
     ray_initialised |-> FALSE]

\* process_all_dicoms entered: ray.init, then pass 1 found n_series series
\* (lines 302-307)
enter_process_all_dicoms(m) ==
    [m EXCEPT !.pc = "entered", !.call = "process_all_dicoms", !.exc = "none",
              !.calls = @ + 1, !.n_scans = m.n_series, !.ray_initialised = TRUE,
              !.run_summary = {}, !.run_instances = Len(m.instances),
              !.n_batch = 0, !.ids = <<>>, !.nb_job_left = 0, !.iteration = 0,
              !.submitted = <<>>, !.completed = {}, !.empty_waits = 0]

Managers ==
    {NewManager(n_batch, keep, n_series, n_images, fail_image) :
        n_batch \in {None} \cup 0..MaxBatch, keep \in BOOLEAN,
        n_series \in 0..MaxSeries, n_images \in 0..MaxImages, fail_image \in {None, 1}}

InitManager ==
    /\ IdleDicom /\ IdleROI /\ IdleSlices /\ IdleCombine /\ IdleSpatial
    /\ assembly = [pc |-> "idle"] /\ lps = [loaded |-> FALSE]
    /\ manager \in {m \in Managers : m.fail_image = None \/ m.n_images >= 2}

\* line 302: ray.init is called without ignore_reinit_error and ray.shutdown
\* is never called, so a second call in the same process raises RuntimeError
EnterProcessAllDicoms ==
    /\ manager.pc \in {"constructed", "done", "raised"}
    /\ manager.calls < MaxCalls
    /\ manager' =
        IF manager.ray_initialised
            THEN [manager EXCEPT !.pc = "raised", !.call = "process_all_dicoms",
                                 !.exc = "RuntimeError", !.calls = @ + 1]
        ELSE enter_process_all_dicoms(manager)
    /\ UNCHANGED <<assembly, lps, dicomVars, roiVars, sliceVars, combineVars, spatialVars>>

\* lines 308-321: n_batch and the first tasks; cell_path_images[i] raises
\* IndexError when i is not below n_scans
DistributeFirstTasks ==
    /\ manager.pc = "entered"
    /\ LET n_batch == effective_n_batch(manager.n_batch_setting, manager.n_scans)
       IN  manager' =
            IF n_batch > manager.n_scans
                THEN [manager EXCEPT !.pc = "raised", !.exc = "IndexError", !.n_batch = n_batch]
            ELSE [manager EXCEPT !.pc = "first_batch", !.n_batch = n_batch,
                                 !.ids = first_tasks(n_batch),
                                 !.submitted = first_tasks(n_batch)]
    /\ UNCHANGED <<assembly, lps, dicomVars, roiVars, sliceVars, combineVars, spatialVars>>

\* a worker finishes a submitted job
JobCompletes ==
    /\ manager.call = "process_all_dicoms"
    /\ \E job \in Range(manager.submitted) \ manager.completed :
          manager' = [manager EXCEPT !.completed = @ \cup {job}]
    /\ UNCHANGED <<assembly, lps, dicomVars, roiVars, sliceVars, combineVars, spatialVars>>

\* lines 323-356: ray.get(ids) returns when every job of ids is complete
GetFirstBatch ==
    /\ manager.pc = "first_batch"
    /\ Range(manager.ids) \subseteq manager.completed
    /\ LET got == instances_of("dicom", manager.ids)
           m == keep_first_batch(update_summary(manager, got), got)
       IN  manager' = [m EXCEPT !.pc = "loop", !.iteration = 0,
                                !.nb_job_left = manager.n_scans - manager.n_batch]
    /\ UNCHANGED <<assembly, lps, dicomVars, roiVars, sliceVars, combineVars, spatialVars>>

\* lines 359-368, one iteration: ray.wait(ids, num_returns=1) returns one
\* complete job and the others, or two empty lists at once when ids is empty;
\* then the next job, if one is left, is submitted
WaitAndSubmit ==
    /\ manager.pc = "loop"
    /\ manager.iteration < loop_iterations(manager.n_scans)
    /\ \E ready \in IF manager.ids = <<>> THEN {None}
                    ELSE Range(manager.ids) \cap manager.completed :
          LET not_ready == SelectSeq(manager.ids, LAMBDA j : j # ready)
              idx == next_index(manager.n_scans, manager.nb_job_left)
              waited == [manager EXCEPT
                            !.iteration = @ + 1,
                            !.empty_waits = IF manager.ids = <<>> THEN @ + 1 ELSE @]
          IN  manager' =
                IF manager.nb_job_left > 0
                    THEN [waited EXCEPT !.ids = Append(not_ready, idx),
                                        !.submitted = Append(@, idx),
                                        !.nb_job_left = @ - 1]
                    ELSE [waited EXCEPT !.ids = not_ready]
    /\ UNCHANGED <<assembly, lps, dicomVars, roiVars, sliceVars, combineVars, spatialVars>>

\* lines 371-404: ray.get(ids) after the loop, summary, instances, return
GetRemaining ==
    /\ manager.pc = "loop"
    /\ manager.iteration >= loop_iterations(manager.n_scans)
    /\ Range(manager.ids) \subseteq manager.completed
    /\ LET got == instances_of("dicom", manager.ids)
           m == keep_remaining(update_summary(manager, got), got)
       IN  manager' = [m EXCEPT !.pc = "done"]
    /\ UNCHANGED <<assembly, lps, dicomVars, roiVars, sliceVars, combineVars, spatialVars>>

\* lines 527-528: __read_all_niftis appends the images of the folder to
\* stack_path_images, which is not emptied between calls
EnterProcessAllNiftis ==
    /\ manager.pc \in {"constructed", "done", "raised"}
    /\ manager.calls < MaxCalls
    /\ manager' = [manager EXCEPT
                      !.pc = "niftis", !.call = "process_all_niftis", !.exc = "none",
                      !.calls = @ + 1, !.position = 0,
                      !.run_summary = {}, !.run_instances = Len(manager.instances),
                      !.stack_path_images = @ \o [i \in 1..manager.n_images |-> i]]
    /\ UNCHANGED <<assembly, lps, dicomVars, roiVars, sliceVars, combineVars, spatialVars>>

\* lines 529-576, one iteration: the warning, the reconstruction of the image
\* (an exception of it leaves process_all_niftis), instances, summary
ProcessNiftiFile ==
    /\ manager.pc = "niftis"
    /\ manager.position < Len(manager.stack_path_images)
    /\ LET file == manager.stack_path_images[manager.position + 1]
           m == IF Len(manager.instances) > InstanceLimit /\ ~manager.warned
                    THEN [manager EXCEPT !.warned = TRUE] ELSE manager
           got == <<instance_of("nifti", file)>>
           kept == IF m.keep_instances THEN [m EXCEPT !.instances = @ \o got] ELSE m
       IN  manager' =
            IF file = manager.fail_image
                THEN [m EXCEPT !.pc = "raised", !.exc = "Exception"]
            ELSE [update_summary(kept, got) EXCEPT !.position = @ + 1]
    /\ UNCHANGED <<assembly, lps, dicomVars, roiVars, sliceVars, combineVars, spatialVars>>

\* lines 577-578
ReturnFromNiftis ==
    /\ manager.pc = "niftis"
    /\ manager.position >= Len(manager.stack_path_images)
    /\ manager' = [manager EXCEPT !.pc = "done"]
    /\ UNCHANGED <<assembly, lps, dicomVars, roiVars, sliceVars, combineVars, spatialVars>>

NextDispatch ==
    \/ DistributeFirstTasks
    \/ JobCompletes
    \/ GetFirstBatch
    \/ WaitAndSubmit
    \/ GetRemaining

NextManager ==
    \/ EnterProcessAllDicoms
    \/ NextDispatch
    \/ EnterProcessAllNiftis
    \/ ProcessNiftiFile
    \/ ReturnFromNiftis

SpecManager == InitManager /\ [][NextManager]_vars

\* one call of process_all_dicoms on a fresh DataManager
InitDispatch ==
    /\ IdleDicom /\ IdleROI /\ IdleSlices /\ IdleCombine /\ IdleSpatial
    /\ assembly = [pc |-> "idle"] /\ lps = [loaded |-> FALSE]
    /\ \E m \in Managers :
          /\ m.n_images = 0 /\ m.fail_image = None
          /\ manager = enter_process_all_dicoms(m)

\* the main thread runs whenever it is not blocked in ray.get or ray.wait, and
\* a worker runs every job it was given to completion
SpecDispatch == InitDispatch /\ [][NextDispatch]_vars /\ WF_vars(NextDispatch)

(***************************************************************************)
(* Claims about the dispatch and the accumulation of the instances         *)
(***************************************************************************)
\* the jobs submitted and not yet complete
PendingJobs == Range(manager.submitted) \ manager.completed
AllSeries == 0..(manager.n_scans - 1)
SubmittedOnce(j) == Count(manager.submitted, j) = 1

\* C22: once self.instances holds more than ten instances it never grows,
\* in process_all_dicoms and in process_all_niftis, over any sequence of calls.
C22_AccumulatorIsBounded ==
    [][Len(manager.instances) > InstanceLimit =>
          Len(manager'.instances) <= Len(manager.instances)]_vars

\* C23: with keep_instances and n_batch >= 1, process_all_dicoms on a fresh
\* DataManager returns one instance for every series found, and every series
\* is in the summary, also when there are more series than n_batch.
C23_EverySeriesIsReturned ==
    (/\ manager.pc = "done"
     /\ manager.keep_instances
     /\ manager.n_batch_setting >= 1
     /\ manager.n_scans <= InstanceLimit) =>
        \A j \in AllSeries :
            /\ Count(manager.instances, instance_of("dicom", j)) = 1
            /\ instance_of("dicom", j) \in Range(manager.summary)

\* C24: with n_batch = 0 the series are dispatched one after another (a job
\* is submitted only when no other is running), the call terminates, and
\* every series has been submitted once and processed.
C24_SerialWithZeroBatch ==
    /\ [](manager.n_batch_setting = 0 => Cardinality(PendingJobs) <= 1)
    /\ (manager.n_batch_setting = 0 /\ manager.pc = "entered")
          ~> (/\ manager.pc = "done"
              /\ manager.completed = AllSeries
              /\ \A j \in AllSeries : SubmittedOnce(j))

\* three series were processed serially, the first wait finding no job
C24_Witness ==
    /\ manager.pc = "done"
    /\ manager.n_batch_setting = 0
    /\ manager.n_scans = 3
    /\ manager.submitted = <<0, 1, 2>>
    /\ manager.completed = {0, 1, 2}

\* C25: an image that cannot be reconstructed aborts only itself: every other
\* image of the same run of process_all_niftis gets its summary entry and,
\* when instances are kept, its instance.
C25_FailureAbortsOnlyItsSeries ==
    (manager.call = "process_all_niftis" /\ manager.pc \in {"done", "raised"}) =>
        \A file \in 1..manager.n_images :
            file # manager.fail_image =>
                /\ instance_of("nifti", file) \in manager.run_summary
                /\ manager.keep_instances =>
                      \E i \in (manager.run_instances + 1)..Len(manager.instances) :
                          manager.instances[i] = instance_of("nifti", file)

\* C28: with n_batch >= 1 no series is submitted twice, at most n_batch jobs
\* are submitted and not complete, ray.wait is never called on an empty list,
\* and the call ends with every series submitted once and no job pending.
C28_BoundedDispatch ==
    /\ [](manager.n_batch_setting >= 1 =>
            /\ \A j \in Range(manager.submitted) : j \in AllSeries /\ SubmittedOnce(j)
            /\ Cardinality(PendingJobs) <= manager.n_batch
            /\ manager.n_batch <= manager.n_batch_setting
            /\ manager.empty_waits = 0
            /\ manager.pc = "done" =>
                  /\ Range(manager.submitted) = AllSeries
                  /\ PendingJobs = {}
                  /\ manager.ids = <<>>)
    /\ (manager.n_batch_setting >= 1 /\ manager.pc = "entered")
          ~> (manager.pc = "done" /\ PendingJobs = {})

\* three series went through two workers, the third submitted by the loop
C28_Witness ==
    /\ manager.pc = "done"
    /\ manager.n_batch_setting = 2
    /\ manager.n_scans = 3
    /\ manager.submitted = <<0, 1, 2>>
    /\ manager.iteration = 3

====
